---- MODULE Spec2Model ----
(***************************************************************************)
(* Verification model of the CodexMonitor supervisor core                  *)
(* (src-tauri/src/shared/supervisor_core): the dispatch executor and its   *)
(* idempotency store, contract validation, the core service facade and the *)
(* supervisor loop.                                                        *)
(*                                                                         *)
(* Strings that the code formats, trims or compares are sequences of       *)
(* one-character strings, so that `format!("{}:{}", a, b)` is a real       *)
(* concatenation and `trim()` a real trim.  Option<T> is a sequence of     *)
(* length at most one: None == <<>>, Some(x) == <<x>>.                      *)
(***************************************************************************)
EXTENDS Integers, Sequences, FiniteSets, TLC

VARIABLES
    idempotency,    \* SupervisorDispatchExecutor.idempotency.entries : key -> result
    calls,          \* the backend calls made so far, in order (MockDispatchBackend.calls)
    backend,        \* how the session backend answers the flaky workspace: a mode
    history,        \* one entry per action handed to dispatch_action, in order
    nbatch,         \* number of dispatch_batch calls made so far
    last_batch,     \* the last dispatch_batch call: [actions, results]
    sup,            \* the SupervisorLoop: state, config, workspace_last_event_at_ms
    last_op,        \* the last operation on the loop, its inputs and the loop before it
    nops,           \* number of operations applied to the loop so far
    tasks,          \* the concurrent supervisor_dispatch_core calls: task -> its position
    executor_lock,  \* the holder of the dispatch_executor mutex, if any
    loop_lock,      \* the holder of the supervisor_loop mutex, if any
    app_locks       \* the holders of the sessions, workspaces and app_settings mutexes

execVars == <<idempotency, calls, backend, history, nbatch, last_batch>>

loopVars == <<sup, last_op, nops>>

serviceVars == <<tasks, executor_lock, loop_lock, app_locks>>

vars ==
    <<idempotency, calls, backend, history, nbatch, last_batch, sup, last_op, nops,
      tasks, executor_lock, loop_lock, app_locks>>

\* the mutexes of the app state next to the loop and the executor
AppMutexes == { "sessions", "workspaces", "app_settings" }

\* nobody holds a mutex of the app state
NoAppLocks == [mutex \in AppMutexes |-> <<>>]

-----------------------------------------------------------------------------
(* Bounds of the model. *)

\* longest batch handed to dispatch_batch
MaxBatchLen == 2
\* total number of actions dispatched, and of batches, in one behaviour
MaxDispatched == 2
\* number of concurrent supervisor_dispatch_core calls
NumTasks == 2

-----------------------------------------------------------------------------
(* Strings and options. *)

None == <<>>
Some(x) == <<x>>
IsSome(o) == Len(o) = 1
Unwrap(o) == o[1]

IsSpace(c) == c = " "

RECURSIVE TrimStart(_)
TrimStart(s) ==
    IF Len(s) > 0 /\ IsSpace(Head(s)) THEN TrimStart(Tail(s)) ELSE s

RECURSIVE TrimEnd(_)
TrimEnd(s) ==
    IF Len(s) > 0 /\ IsSpace(s[Len(s)]) THEN TrimEnd(SubSeq(s, 1, Len(s) - 1)) ELSE s

\* str::trim
Trim(s) == TrimEnd(TrimStart(s))

Digit(n) == <<"0", "1", "2", "3", "4", "5", "6", "7", "8", "9">>[n + 1]

\* i64::to_string / usize formatting, for the small naturals of the model
RECURSIVE NumStr(_)
NumStr(n) == IF n < 10 THEN <<Digit(n)>> ELSE NumStr(n \div 10) \o <<Digit(n % 10)>>

\* the elements of a sequence
Range(s) == {s[i] : i \in 1..Len(s)}

\* `let x = v; F(x)`: v is computed once and F applied to its value
Bind(v, F(_)) == CHOOSE r \in {F(x) : x \in {v}} : TRUE

-----------------------------------------------------------------------------
(* dispatch.rs: normalization of an action. *)

AccessModes ==
    { <<"r", "e", "a", "d", "-", "o", "n", "l", "y">>,
      <<"c", "u", "r", "r", "e", "n", "t">>,
      <<"f", "u", "l", "l", "-", "a", "c", "c", "e", "s", "s">> }

\* normalize_optional: trim, and drop an empty value
normalize_optional(value) ==
    IF IsSome(value) /\ Len(Trim(Unwrap(value))) > 0 THEN Some(Trim(Unwrap(value))) ELSE None

\* normalize_access_mode: Ok(None), Ok(Some(mode)) or Err
normalize_access_mode(value) ==
    LET v == normalize_optional(value) IN
    IF ~IsSome(v) THEN [ok |-> TRUE, value |-> None]
    ELSE IF Unwrap(v) \in AccessModes THEN [ok |-> TRUE, value |-> v]
    ELSE [ok |-> FALSE, error |-> "access_mode must be one of read-only, current, or full-access"]

\* the dedupe token of an action: trimmed non-empty dedupe_key, else the action id
dedupe_token_of(dedupe_key, action_id) ==
    IF IsSome(dedupe_key) /\ Len(Trim(Unwrap(dedupe_key))) > 0
    THEN Trim(Unwrap(dedupe_key))
    ELSE action_id

\* TryFrom<SupervisorDispatchAction> for NormalizedDispatchAction
try_from(value) ==
    LET action_id == Trim(value.action_id)
        workspace_id == Trim(value.workspace_id)
        prompt == Trim(value.prompt)
        access == normalize_access_mode(value.access_mode)
    IN
    IF Len(action_id) = 0 THEN [ok |-> FALSE, error |-> "action_id is required"]
    ELSE IF Len(workspace_id) = 0 THEN [ok |-> FALSE, error |-> "workspace_id is required"]
    ELSE IF Len(prompt) = 0 THEN [ok |-> FALSE, error |-> "prompt is required"]
    ELSE IF ~access.ok THEN [ok |-> FALSE, error |-> access.error]
    ELSE [ok |-> TRUE,
          value |-> [action_id |-> action_id,
                     workspace_id |-> workspace_id,
                     thread_id |-> normalize_optional(value.thread_id),
                     prompt |-> prompt,
                     dedupe_token |-> dedupe_token_of(value.dedupe_key, action_id),
                     access_mode |-> access.value]]

\* the key also carries the action id
idempotency_key_with_action_id(action) ==
    action.workspace_id \o <<":">> \o action.dedupe_token \o <<":">> \o action.action_id

\* NormalizedDispatchAction::idempotency_key: format!("{}:{}", workspace_id, dedupe_token)
idempotency_key(action) ==
    action.workspace_id \o <<":">> \o action.dedupe_token

-----------------------------------------------------------------------------
(* The session backend (SupervisorDispatchBackend).  A response is either  *)
(* a transport error (Err) or a JSON value that may embed an error and may *)
(* carry a thread id and a turn id.                                        *)

BackendModes ==
    {"ok", "thread_transport", "thread_error", "thread_no_id",
     "turn_transport", "turn_error", "turn_no_id"}

Transport(msg) == [transport |-> Some(msg), error |-> None, thread_id |-> None, turn_id |-> None]
Json(error, thread_id, turn_id) ==
    [transport |-> None, error |-> error, thread_id |-> thread_id, turn_id |-> turn_id]

\* the workspace whose session may fail; every other workspace answers normally
FlakyWorkspace == <<"a">>

\* the backend's mode for one workspace
mode_for(b, workspace_id) == IF workspace_id = FlakyWorkspace THEN b ELSE "ok"

\* start_thread (thread_id = None) or resume_thread (thread_id = Some(t)); n calls were made before
backend_thread_response(b, workspace_id, thread_id, n) ==
    LET mode == mode_for(b, workspace_id) IN
    IF mode = "thread_transport"
    THEN Transport(<<"workspace is not connected", workspace_id>>)
    ELSE IF mode = "thread_error"
    THEN Json(Some(<<"thread request failed", workspace_id>>), None, None)
    ELSE IF mode = "thread_no_id"
    THEN Json(None, None, None)
    ELSE IF IsSome(thread_id)
    THEN Json(None, thread_id, None)
    ELSE Json(None, Some(<<"T">> \o NumStr(n)), None)

\* start_turn; n calls were made before
backend_turn_response(b, workspace_id, thread_id, n) ==
    LET mode == mode_for(b, workspace_id) IN
    IF mode = "turn_transport"
    THEN Transport(<<"workspace is not connected", workspace_id>>)
    ELSE IF mode = "turn_error"
    THEN Json(Some(<<"turn request failed", workspace_id>>), None, None)
    ELSE IF mode = "turn_no_id"
    THEN Json(None, None, None)
    ELSE Json(None, None, Some(<<"U">> \o NumStr(n)))

\* what the call log keeps of a response
outcome_of(resp) ==
    IF IsSome(resp.transport) THEN "transport"
    ELSE IF IsSome(resp.error) THEN "error"
    ELSE "ok"

\* embedded errors go unnoticed
response_error_ignored(response) == None

response_error_message(response) == response.error
extract_thread_id(response) == response.thread_id
extract_turn_id(response) == response.turn_id

-----------------------------------------------------------------------------
(* dispatch.rs: the executor. *)

failed_dispatch_result(action, error, thread_id, turn_id, idempotent_replay) ==
    [action_id |-> action.action_id,
     workspace_id |-> action.workspace_id,
     dedupe_key |-> action.dedupe_token,
     status |-> "Failed",
     thread_id |-> thread_id,
     turn_id |-> turn_id,
     error |-> Some(error),
     idempotent_replay |-> idempotent_replay]

Call(op, workspace_id, thread_id, resp, tag) ==
    [op |-> op, workspace_id |-> workspace_id, thread_id |-> thread_id,
     outcome |-> outcome_of(resp), batch |-> tag.batch, idx |-> tag.idx]

\* ensure_thread: [ok, thread_id | error, calls]
ensure_thread(b, cs, action, tag) ==
    LET resp == backend_thread_response(b, action.workspace_id, action.thread_id, Len(cs))
        op == IF IsSome(action.thread_id) THEN "resume_thread" ELSE "start_thread"
        cs2 == Append(cs, Call(op, action.workspace_id, action.thread_id, resp, tag))
    IN
    IF IsSome(resp.transport) THEN [ok |-> FALSE, error |-> Unwrap(resp.transport), calls |-> cs2]
    ELSE IF IsSome(response_error_message(resp))
    THEN [ok |-> FALSE, error |-> Unwrap(response_error_message(resp)), calls |-> cs2]
    ELSE IF IsSome(action.thread_id)
    THEN [ok |-> TRUE,
          thread_id |-> IF IsSome(extract_thread_id(resp))
                        THEN Unwrap(extract_thread_id(resp)) ELSE Unwrap(action.thread_id),
          calls |-> cs2]
    ELSE IF IsSome(extract_thread_id(resp))
    THEN [ok |-> TRUE, thread_id |-> Unwrap(extract_thread_id(resp)), calls |-> cs2]
    ELSE [ok |-> FALSE,
          error |-> <<"thread/start response did not include threadId for workspace",
                      action.workspace_id>>,
          calls |-> cs2]

\* the start_turn half of dispatch_normalized: [result, calls]
start_turn_call(b, cs, action, thread_id, tag) ==
    LET resp == backend_turn_response(b, action.workspace_id, thread_id, Len(cs))
        cs2 == Append(cs, Call("start_turn", action.workspace_id, Some(thread_id), resp, tag))
    IN
    IF IsSome(resp.transport)
    THEN [result |-> failed_dispatch_result(action, Unwrap(resp.transport),
                                            Some(thread_id), None, FALSE),
          calls |-> cs2]
    ELSE IF IsSome(response_error_message(resp))
    THEN [result |-> failed_dispatch_result(action, Unwrap(response_error_message(resp)),
                                            Some(thread_id), None, FALSE),
          calls |-> cs2]
    ELSE [result |-> [action_id |-> action.action_id,
                      workspace_id |-> action.workspace_id,
                      dedupe_key |-> action.dedupe_token,
                      status |-> "Dispatched",
                      thread_id |-> Some(thread_id),
                      turn_id |-> extract_turn_id(resp),
                      error |-> None,
                      idempotent_replay |-> FALSE],
          calls |-> cs2]

\* dispatch_normalized: [result, calls]
dispatch_normalized(b, cs, action, tag) ==
    Bind(ensure_thread(b, cs, action, tag), LAMBDA th :
    IF ~th.ok
    THEN [result |-> failed_dispatch_result(action, th.error, None, None, FALSE),
          calls |-> th.calls]
    ELSE start_turn_call(b, th.calls, action, th.thread_id, tag))

\* SupervisorDispatchIdempotencyStore::insert
store_insert(store, key, value) ==
    [k \in (DOMAIN store) \cup {key} |-> IF k = key THEN value ELSE store[k]]

\* the result of an action that fails normalization
invalid_action_result(action, error) ==
    [action_id |-> action.action_id,
     workspace_id |-> action.workspace_id,
     dedupe_key |-> IF IsSome(action.dedupe_key) THEN Unwrap(action.dedupe_key) ELSE <<>>,
     status |-> "Failed",
     thread_id |-> None,
     turn_id |-> None,
     error |-> Some(error),
     idempotent_replay |-> FALSE]

\* the cached result as it was stored, flagged as a replay
replay_result_verbatim(cached, normalized) ==
    [cached EXCEPT !.idempotent_replay = TRUE]

\* the copy of a cached result an idempotent replay returns
replay_result(cached, normalized) ==
    [cached EXCEPT !.action_id = normalized.action_id, !.idempotent_replay = TRUE]

\* only a Dispatched result is stored
dispatch_action_caching_successes(b, store, cs, action, tag) ==
    Bind(try_from(action), LAMBDA normalized :
    IF ~normalized.ok
    THEN [result |-> invalid_action_result(action, normalized.error),
          store |-> store, calls |-> cs]
    ELSE
    LET key == idempotency_key(normalized.value) IN
    IF key \in DOMAIN store
    THEN [result |-> replay_result(store[key], normalized.value),
          store |-> store, calls |-> cs]
    ELSE
    Bind(dispatch_normalized(b, cs, normalized.value, tag), LAMBDA out :
    [result |-> out.result,
     store |-> IF out.result.status = "Dispatched"
               THEN store_insert(store, key, out.result) ELSE store,
     calls |-> out.calls]))

\* dispatch_action: [result, store, calls]
dispatch_action(b, store, cs, action, tag) ==
    Bind(try_from(action), LAMBDA normalized :
    IF ~normalized.ok
    THEN [result |-> invalid_action_result(action, normalized.error),
          store |-> store, calls |-> cs]
    ELSE
    LET key == idempotency_key(normalized.value) IN
    IF key \in DOMAIN store
    THEN [result |-> replay_result(store[key], normalized.value),
          store |-> store, calls |-> cs]
    ELSE
    Bind(dispatch_normalized(b, cs, normalized.value, tag), LAMBDA out :
    [result |-> out.result,
     store |-> store_insert(store, key, out.result),
     calls |-> out.calls]))

\* dispatch_batch, from action i on: st = [store, calls, results, entries]
RECURSIVE dispatch_batch_from(_, _, _, _, _)
dispatch_batch_from(b, st, actions, i, batch) ==
    IF i > Len(actions) THEN st
    ELSE
    Bind(dispatch_action(b, st.store, st.calls, actions[i], [batch |-> batch, idx |-> i]),
         LAMBDA out :
    LET entry == [batch |-> batch, idx |-> i, action |-> actions[i], result |-> out.result,
                  calls_from |-> Len(st.calls), calls_to |-> Len(out.calls)]
    IN
    Bind([store |-> out.store, calls |-> out.calls,
          results |-> Append(st.results, out.result),
          entries |-> Append(st.entries, entry)],
         LAMBDA next : dispatch_batch_from(b, next, actions, i + 1, batch)))

\* the elements of a sequence, last first
Reverse(s) == [i \in 1..Len(s) |-> s[Len(s) + 1 - i]]

\* the batch is walked from its last action to its first
dispatch_batch_reversed(b, store, cs, actions, batch) ==
    dispatch_batch_from(b, [store |-> store, calls |-> cs, results |-> <<>>, entries |-> <<>>],
                        Reverse(actions), 1, batch)

\* SupervisorDispatchExecutor::dispatch_batch
dispatch_batch(b, store, cs, actions, batch) ==
    dispatch_batch_from(b, [store |-> store, calls |-> cs, results |-> <<>>, entries |-> <<>>],
                        actions, 1, batch)


-----------------------------------------------------------------------------
(* supervisor_core.rs: the state reducer (apply_update), on the loop record. *)

\* BTreeMap::insert
MapPut(map, key, value) ==
    [k \in (DOMAIN map) \cup {key} |-> IF k = key THEN value ELSE map[k]]

\* the characters of the ids of the model, in byte order
Alphabet ==
    <<" ", "-", "0", "1", "2", "3", "4", "5", "6", "7", "8", "9", ":",
      "a", "b", "c", "d", "p", "q", "r", "s", "t", "u", "v", "w", "x">>

Ord(c) == CHOOSE i \in 1..Len(Alphabet) : Alphabet[i] = c

\* String::cmp: a < b
RECURSIVE StrLess(_, _)
StrLess(a, b) ==
    IF Len(b) = 0 THEN FALSE
    ELSE IF Len(a) = 0 THEN TRUE
    ELSE IF Head(a) = Head(b) THEN StrLess(Tail(a), Tail(b))
    ELSE Ord(Head(a)) < Ord(Head(b))

\* the entry with this id stays where it is
RemoveNothingById(entries, id) == entries

\* Vec::remove of the first entry with this id, if any
RemoveFirstById(entries, id) ==
    IF \E i \in 1..Len(entries) : entries[i].id = id
    THEN LET idx == CHOOSE i \in 1..Len(entries) :
                        /\ entries[i].id = id
                        /\ \A j \in 1..(i - 1) : entries[j].id # id
         IN SubSeq(entries, 1, idx - 1) \o SubSeq(entries, idx + 1, Len(entries))
    ELSE entries

\* the cap drops the entries in front and keeps the tail
TruncateFront(entries, limit) ==
    IF Len(entries) > limit
    THEN SubSeq(entries, Len(entries) - limit + 1, Len(entries)) ELSE entries

\* Vec::truncate
Truncate(entries, limit) ==
    IF Len(entries) > limit THEN SubSeq(entries, 1, limit) ELSE entries

DEFAULT_ACTIVITY_FEED_LIMIT == 200
DEFAULT_CHAT_HISTORY_LIMIT == 500
SUPERVISOR_SUBTASK_EVENT_LIMIT == 24

thread_map_key(workspace_id, thread_id) == workspace_id \o <<":">> \o thread_id

UpsertWorkspace(s, workspace) ==
    [s EXCEPT !.workspaces = MapPut(s.workspaces, workspace.id, workspace)]

UpsertThread(s, thread) ==
    [s EXCEPT !.threads = MapPut(s.threads, thread_map_key(thread.workspace_id, thread.id), thread)]

UpsertJob(s, job) ==
    [s EXCEPT !.jobs = MapPut(s.jobs, job.id, job)]

\* the signal is put in front, whatever the sequence holds
PushSignalAgain(s, signal) == [s EXCEPT !.signals = <<signal>> \o s.signals]

PushSignal(s, signal) ==
    [s EXCEPT !.signals = <<signal>> \o RemoveFirstById(s.signals, signal.id)]

PushActivity(s, entry, max_items) ==
    LET limit == IF max_items = 0 THEN DEFAULT_ACTIVITY_FEED_LIMIT ELSE max_items IN
    [s EXCEPT !.activity_feed =
        Truncate(<<entry>> \o RemoveFirstById(s.activity_feed, entry.id), limit)]

\* Vec::drain(0..len - limit): the newest `limit` entries of an oldest-first list
KeepLast(entries, limit) ==
    IF Len(entries) > limit
    THEN SubSeq(entries, Len(entries) - limit + 1, Len(entries)) ELSE entries

\* PushChatMessage: chat_history() of a loop that was sent one command lists
\* the User message before the System response (service.rs, the test
\* supervisor_chat_send_core_appends_user_and_system_messages), so a push
\* adds at the end and the cap drops from the front
PushChatMessage(s, message, max_items) ==
    LET limit == IF max_items = 0 THEN DEFAULT_CHAT_HISTORY_LIMIT ELSE max_items IN
    [s EXCEPT !.chat_history =
        KeepLast(RemoveFirstById(s.chat_history, message.id) \o <<message>>, limit)]

UpsertOpenQuestion(s, question) ==
    [s EXCEPT !.open_questions = MapPut(s.open_questions, question.id, question)]

\* the question stays open
KeepOpenQuestion(s, question_id, resolved_at_ms) == s

ResolveOpenQuestion(s, question_id, resolved_at_ms) ==
    IF question_id \in DOMAIN s.open_questions
    THEN [s EXCEPT !.open_questions[question_id].resolved_at_ms = Some(resolved_at_ms)]
    ELSE s

UpsertPendingApproval(s, approval) ==
    [s EXCEPT !.pending_approvals = MapPut(s.pending_approvals, approval.request_key, approval)]

\* BTreeMap::retain
Retain(map, Keep(_)) ==
    [k \in {key \in DOMAIN map : Keep(map[key])} |-> map[k]]

\* BTreeMap::remove
MapRemove(map, key) == [k \in (DOMAIN map) \ {key} |-> map[k]]

\* only the workspace itself is removed
RemoveWorkspaceOnly(s, workspace_id) ==
    [s EXCEPT !.workspaces = MapRemove(@, workspace_id)]

RemoveWorkspace(s, workspace_id) ==
    [s EXCEPT
        !.workspaces = MapRemove(@, workspace_id),
        !.threads = Retain(@, LAMBDA thread : thread.workspace_id # workspace_id),
        !.jobs = Retain(@, LAMBDA job : job.workspace_id # workspace_id),
        !.open_questions = Retain(@, LAMBDA question : question.workspace_id # workspace_id),
        !.pending_approvals = Retain(@, LAMBDA approval : approval.workspace_id # workspace_id)]

RemoveThread(s, workspace_id, thread_id) ==
    [s EXCEPT
        !.threads = MapRemove(@, thread_map_key(workspace_id, thread_id)),
        !.jobs = Retain(@, LAMBDA job :
                    ~(job.workspace_id = workspace_id /\ job.thread_id = Some(thread_id))),
        !.open_questions = Retain(@, LAMBDA question :
                    ~(question.workspace_id = workspace_id /\ question.thread_id = thread_id)),
        !.pending_approvals = Retain(@, LAMBDA approval :
                    ~(approval.workspace_id = workspace_id
                      /\ approval.thread_id = Some(thread_id)))]

RemoveJob(s, job_id) == [s EXCEPT !.jobs = MapRemove(@, job_id)]

UpdateJobStatus(s, job_id, status, at_ms, error) ==
    IF job_id \notin DOMAIN s.jobs THEN s
    ELSE [s EXCEPT !.jobs[job_id] =
            [@ EXCEPT
                !.status = status,
                !.started_at_ms =
                    CASE status = "Running" -> Some(at_ms)
                      [] status = "Pending" -> None
                      [] OTHER -> @,
                !.completed_at_ms =
                    CASE status \in {"Running", "Pending"} -> None
                      [] status \in {"Completed", "Failed"} -> Some(at_ms)
                      [] OTHER -> @,
                !.error = error]]

\* every signal is acknowledged
AckEverySignal(s, signal_id, acknowledged_at_ms) ==
    [s EXCEPT !.signals =
        [i \in 1..Len(s.signals) |->
            [s.signals[i] EXCEPT !.acknowledged_at_ms = Some(acknowledged_at_ms)]]]

AckSignal(s, signal_id, acknowledged_at_ms) ==
    IF \E i \in 1..Len(s.signals) : s.signals[i].id = signal_id
    THEN LET idx == CHOOSE i \in 1..Len(s.signals) :
                        /\ s.signals[i].id = signal_id
                        /\ \A j \in 1..(i - 1) : s.signals[j].id # signal_id
         IN [s EXCEPT !.signals[idx].acknowledged_at_ms = Some(acknowledged_at_ms)]
    ELSE s

ResolvePendingApproval(s, request_key, resolved_at_ms) ==
    IF request_key \in DOMAIN s.pending_approvals
    THEN [s EXCEPT !.pending_approvals[request_key].resolved_at_ms = Some(resolved_at_ms)]
    ELSE s

-----------------------------------------------------------------------------
(* loop.rs: the supervisor loop. *)

\* SupervisorLoopConfig: thresholds as small as the timestamps of the model
DefaultConfig == [stale_after_ms |-> 2, disconnected_after_ms |-> 3, activity_feed_limit |-> 3]

Configs ==
    { DefaultConfig,
      [stale_after_ms |-> 3, disconnected_after_ms |-> 2, activity_feed_limit |-> 0],
      [stale_after_ms |-> 1, disconnected_after_ms |-> 1, activity_feed_limit |-> 3] }

\* SupervisorLoop::new; `uuids` counts the values Uuid::new_v4 has returned
new(config) ==
    [workspaces |-> <<>>, threads |-> <<>>, jobs |-> <<>>, signals |-> <<>>,
     activity_feed |-> <<>>, open_questions |-> <<>>, pending_approvals |-> <<>>,
     chat_history |-> <<>>, config |-> config, workspace_last_event_at_ms |-> <<>>,
     pushed |-> <<>>, uuids |-> 0]

NoOp == [kind |-> "none"]

record_workspace_heartbeat(s, workspace_id, timestamp_ms) ==
    [s EXCEPT !.workspace_last_event_at_ms =
        MapPut(s.workspace_last_event_at_ms, workspace_id, timestamp_ms)]

workspace_state(s, workspace_id) ==
    IF workspace_id \in DOMAIN s.workspaces
    THEN s.workspaces[workspace_id]
    ELSE [id |-> workspace_id, name |-> <<>>, connected |-> FALSE, current_task |-> None,
          last_activity_at_ms |-> None, health |-> "Healthy", active_thread_id |-> None]

thread_state(s, workspace_id, thread_id) ==
    IF thread_map_key(workspace_id, thread_id) \in DOMAIN s.threads
    THEN s.threads[thread_map_key(workspace_id, thread_id)]
    ELSE [id |-> thread_id, workspace_id |-> workspace_id, status |-> "Idle",
          current_task |-> None, last_activity_at_ms |-> None, active_turn_id |-> None]

\* SupervisorJobStatus::is_terminal
is_terminal(status) == status \in {"Completed", "Failed"}

\* the oldest request first
job_before_oldest_first(left, right) ==
    LET lp == IF is_terminal(left.status) THEN 0 ELSE 1
        rp == IF is_terminal(right.status) THEN 0 ELSE 1
    IN
    IF lp # rp THEN lp > rp
    ELSE IF left.requested_at_ms # right.requested_at_ms
    THEN left.requested_at_ms < right.requested_at_ms
    ELSE StrLess(left.id, right.id)

\* the order job_for_event sorts its candidates in
job_before(left, right) ==
    LET lp == IF is_terminal(left.status) THEN 0 ELSE 1
        rp == IF is_terminal(right.status) THEN 0 ELSE 1
    IN
    IF lp # rp THEN lp > rp
    ELSE IF left.requested_at_ms # right.requested_at_ms
    THEN left.requested_at_ms > right.requested_at_ms
    ELSE StrLess(left.id, right.id)

\* job_for_event: Option<SupervisorJobState>
job_for_event(s, workspace_id, thread_id) ==
    LET candidates ==
            { id \in DOMAIN s.jobs :
                /\ s.jobs[id].workspace_id = workspace_id
                /\ IsSome(thread_id) => s.jobs[id].thread_id = thread_id }
    IN
    IF candidates = {} THEN None
    ELSE Some(s.jobs[CHOOSE id \in candidates :
                        \A other \in candidates \ {id} : job_before(s.jobs[id], s.jobs[other])])

\* append_subtask_event: [added, job]
append_subtask_event(job, event) ==
    IF \E i \in 1..Len(job.recent_events) : job.recent_events[i].id = event.id
    THEN [added |-> FALSE, job |-> job]
    ELSE LET events == Append(job.recent_events, event) IN
         [added |-> TRUE,
          job |-> [job EXCEPT !.recent_events =
                      IF Len(events) > SUPERVISOR_SUBTASK_EVENT_LIMIT
                      THEN SubSeq(events, Len(events) - SUPERVISOR_SUBTASK_EVENT_LIMIT + 1,
                                  Len(events))
                      ELSE events]]

\* the message is put in front of the history
prepend_chat_message(s, message) ==
    [s EXCEPT !.chat_history = <<message>> \o s.chat_history]

append_chat_message(s, message) == PushChatMessage(s, message, DEFAULT_CHAT_HISTORY_LIMIT)

push_subtask_chat_message(s, job, kind, created_at_ms) ==
    append_chat_message(s,
        [id |-> <<"chat-bridge:", kind, ":">> \o job.id \o <<":">> \o NumStr(created_at_ms),
         role |-> "System",
         text |-> <<"[subtask:">> \o job.id \o <<" ws:">> \o job.workspace_id \o <<" thread:">>
                  \o (IF IsSome(job.thread_id) THEN Unwrap(job.thread_id) ELSE <<"-">>)
                  \o <<"] ", kind>>,
         created_at_ms |-> created_at_ms])

push_activity(s, id, kind, workspace_id, thread_id, needs_input, created_at_ms) ==
    PushActivity(s,
        [id |-> id, kind |-> kind, created_at_ms |-> created_at_ms,
         workspace_id |-> workspace_id, thread_id |-> thread_id, needs_input |-> needs_input],
        s.config.activity_feed_limit)

\* push_signal; `pushed` logs the calls made during the current operation
push_signal(s, id, kind, workspace_id, thread_id, created_at_ms) ==
    Bind(PushSignal(s, [id |-> id, kind |-> kind, workspace_id |-> workspace_id,
                        thread_id |-> thread_id, job_id |-> None,
                        created_at_ms |-> created_at_ms, acknowledged_at_ms |-> None]),
         LAMBDA s1 : [s1 EXCEPT !.pushed = Append(s1.pushed, [id |-> id, kind |-> kind])])

apply_thread_activity(s, workspace_id, thread_id, active_turn_id, status, timestamp_ms) ==
    Bind(record_workspace_heartbeat(s, workspace_id, timestamp_ms), LAMBDA s1 :
    Bind(UpsertWorkspace(s1,
            [workspace_state(s1, workspace_id) EXCEPT
                !.connected = TRUE,
                !.health = "Healthy",
                !.last_activity_at_ms = Some(timestamp_ms),
                !.active_thread_id = Some(thread_id)]), LAMBDA s2 :
    UpsertThread(s2,
        [thread_state(s2, workspace_id, thread_id) EXCEPT
            !.status = status,
            !.last_activity_at_ms = Some(timestamp_ms),
            !.active_turn_id = active_turn_id])))

-----------------------------------------------------------------------------
(* events.rs: normalization of an app-server message.  A message is a      *)
(* record [method, id, thread_id, turn_id, item_id, message, will_retry];  *)
(* the messages of the model carry no task summary.                        *)

Message(method, id, thread_id, turn_id, item_id, message, will_retry) ==
    [method |-> method, id |-> id, thread_id |-> thread_id, turn_id |-> turn_id,
     item_id |-> item_id, message |-> message, will_retry |-> will_retry]

\* extract_field: the trimmed value, if present and not empty
extract_field(value) == normalize_optional(value)

\* extract_request_id: the envelope id, trimmed (possibly empty)
extract_request_id(message) ==
    IF IsSome(message.id) THEN Some(Trim(Unwrap(message.id))) ELSE None

normalize_turn_event(workspace_id, message, received_at_ms, started) ==
    LET thread_id == extract_field(message.thread_id)
        turn_id == extract_field(message.turn_id)
    IN
    IF ~IsSome(thread_id) \/ ~IsSome(turn_id) THEN None
    ELSE Some([kind |-> IF started THEN "TurnStarted" ELSE "TurnCompleted",
               workspace_id |-> workspace_id, thread_id |-> Unwrap(thread_id),
               turn_id |-> Unwrap(turn_id), received_at_ms |-> received_at_ms])

normalize_item_event(workspace_id, message, received_at_ms, started) ==
    LET thread_id == extract_field(message.thread_id)
        item_id == extract_field(message.item_id)
    IN
    IF ~IsSome(thread_id) \/ ~IsSome(item_id) THEN None
    ELSE Some([kind |-> IF started THEN "ItemStarted" ELSE "ItemCompleted",
               workspace_id |-> workspace_id, thread_id |-> Unwrap(thread_id),
               item_id |-> Unwrap(item_id), received_at_ms |-> received_at_ms])

normalize_approval_event(workspace_id, message, received_at_ms) ==
    LET request_id == extract_request_id(message) IN
    IF ~IsSome(request_id) THEN None
    ELSE Some([kind |-> "ApprovalRequested",
               workspace_id |-> workspace_id,
               request_key |-> workspace_id \o <<":">> \o Unwrap(request_id),
               request_id |-> Unwrap(request_id),
               thread_id |-> extract_field(message.thread_id),
               turn_id |-> extract_field(message.turn_id),
               item_id |-> extract_field(message.item_id),
               received_at_ms |-> received_at_ms])

\* the normalizer of item/tool/requestUserInput
normalize_user_input_event(workspace_id, message, received_at_ms) ==
    LET request_id == extract_request_id(message) IN
    IF ~IsSome(request_id) THEN None
    ELSE Some([kind |-> "UserInputRequested",
               workspace_id |-> workspace_id,
               request_key |-> workspace_id \o <<":">> \o Unwrap(request_id),
               request_id |-> Unwrap(request_id),
               thread_id |-> extract_field(message.thread_id),
               turn_id |-> extract_field(message.turn_id),
               item_id |-> extract_field(message.item_id),
               received_at_ms |-> received_at_ms])

normalize_error_event(workspace_id, message, received_at_ms) ==
    LET text == extract_field(message.message) IN
    IF ~IsSome(text) THEN None
    ELSE Some([kind |-> "Error",
               workspace_id |-> workspace_id,
               thread_id |-> extract_field(message.thread_id),
               turn_id |-> extract_field(message.turn_id),
               message |-> Unwrap(text),
               will_retry |-> message.will_retry,
               received_at_ms |-> received_at_ms])

normalize_app_server_event(workspace_id, message, received_at_ms) ==
    CASE message.method = "turn/started" ->
            normalize_turn_event(workspace_id, message, received_at_ms, TRUE)
      [] message.method = "turn/completed" ->
            normalize_turn_event(workspace_id, message, received_at_ms, FALSE)
      [] message.method = "item/started" ->
            normalize_item_event(workspace_id, message, received_at_ms, TRUE)
      [] message.method = "item/completed" ->
            normalize_item_event(workspace_id, message, received_at_ms, FALSE)
      [] message.method = "error" ->
            normalize_error_event(workspace_id, message, received_at_ms)
      [] message.method = "item/tool/requestUserInput" ->
            normalize_user_input_event(workspace_id, message, received_at_ms)
      [] message.method = "workspace/requestApproval" ->
            normalize_approval_event(workspace_id, message, received_at_ms)
      [] OTHER -> None

-----------------------------------------------------------------------------
(* loop.rs: the per-event handlers. *)

Colon(a, b) == a \o <<":">> \o b

OrEmpty(o) == IF IsSome(o) THEN Unwrap(o) ELSE <<>>

SubtaskEvent(id, kind, created_at_ms) ==
    [id |-> id, kind |-> kind, created_at_ms |-> created_at_ms]

\* the tail of every handler: append the subtask event to the matched (and
\* already updated) job, upsert the job, and bridge a chat line if the event is new
apply_job_event(s, job, event, chat_kind, at_ms) ==
    Bind(append_subtask_event(job, event), LAMBDA r :
    Bind(UpsertJob(s, r.job), LAMBDA s1 :
    IF r.added THEN push_subtask_chat_message(s1, r.job, chat_kind, at_ms) ELSE s1))

on_turn_started(s, e) ==
    Bind(apply_thread_activity(s, e.workspace_id, e.thread_id, Some(e.turn_id), "Running",
                               e.received_at_ms), LAMBDA s1 :
    Bind(push_activity(s1,
            <<"turn_started:">> \o Colon(e.workspace_id, Colon(e.thread_id,
                Colon(e.turn_id, NumStr(e.received_at_ms)))),
            "turn_started", Some(e.workspace_id), Some(e.thread_id), FALSE, e.received_at_ms),
         LAMBDA s2 :
    Bind(job_for_event(s2, e.workspace_id, Some(e.thread_id)), LAMBDA found :
    IF ~IsSome(found) THEN s2
    ELSE apply_job_event(s2,
            [Unwrap(found) EXCEPT !.status = "Running",
                                  !.thread_id = Some(e.thread_id),
                                  !.error = None],
            SubtaskEvent(<<"turn_started:">> \o Colon(e.workspace_id,
                            Colon(e.thread_id, e.turn_id)), "running", e.received_at_ms),
            "turn_started", e.received_at_ms))))

on_turn_completed(s, e) ==
    Bind(apply_thread_activity(s, e.workspace_id, e.thread_id, None, "Completed",
                               e.received_at_ms), LAMBDA s1 :
    Bind(push_signal(s1,
            <<"turn:">> \o Colon(e.workspace_id, Colon(e.thread_id, e.turn_id))
                \o <<":completed">>,
            "Completed", Some(e.workspace_id), Some(e.thread_id), e.received_at_ms),
         LAMBDA s2 :
    Bind(push_activity(s2,
            <<"turn_completed:">> \o Colon(e.workspace_id, Colon(e.thread_id,
                Colon(e.turn_id, NumStr(e.received_at_ms)))),
            "turn_completed", Some(e.workspace_id), Some(e.thread_id), FALSE,
            e.received_at_ms),
         LAMBDA s3 :
    Bind(job_for_event(s3, e.workspace_id, Some(e.thread_id)), LAMBDA found :
    IF ~IsSome(found) THEN s3
    ELSE apply_job_event(s3,
            [Unwrap(found) EXCEPT !.status = "Completed",
                                  !.completed_at_ms = Some(e.received_at_ms),
                                  !.waiting_request_id = None,
                                  !.waiting_question_ids = <<>>],
            SubtaskEvent(<<"turn_completed:">> \o Colon(e.workspace_id,
                            Colon(e.thread_id, e.turn_id)), "completed", e.received_at_ms),
            "turn_completed", e.received_at_ms)))))

\* ItemStarted and ItemCompleted
on_item(s, e, label) ==
    Bind(apply_thread_activity(s, e.workspace_id, e.thread_id, None, "Running",
                               e.received_at_ms), LAMBDA s1 :
    Bind(push_activity(s1,
            <<label, ":">> \o Colon(e.workspace_id, Colon(e.thread_id,
                Colon(e.item_id, NumStr(e.received_at_ms)))),
            label, Some(e.workspace_id), Some(e.thread_id), FALSE, e.received_at_ms),
         LAMBDA s2 :
    Bind(job_for_event(s2, e.workspace_id, Some(e.thread_id)), LAMBDA found :
    IF ~IsSome(found) THEN s2
    ELSE apply_job_event(s2,
            [Unwrap(found) EXCEPT !.status = "Running"],
            SubtaskEvent(<<label, ":">> \o Colon(e.workspace_id,
                            Colon(e.thread_id, e.item_id)), "running", e.received_at_ms),
            label, e.received_at_ms))))

\* the question ids a user-input request of the model carries
QuestionIds == << <<"q">> >>

on_user_input_requested(s, e) ==
    Bind(UpsertOpenQuestion(s,
            [id |-> e.request_key, workspace_id |-> e.workspace_id,
             thread_id |-> IF IsSome(e.thread_id) THEN Unwrap(e.thread_id) ELSE <<"-">>,
             created_at_ms |-> e.received_at_ms, resolved_at_ms |-> None]), LAMBDA s1 :
    Bind(push_activity(s1,
            <<"waiting_for_user:">> \o Colon(e.request_key, NumStr(e.received_at_ms)),
            "waiting_for_user", Some(e.workspace_id), e.thread_id, TRUE, e.received_at_ms),
         LAMBDA s2 :
    Bind(job_for_event(s2, e.workspace_id, e.thread_id), LAMBDA found :
    IF ~IsSome(found) THEN s2
    ELSE apply_job_event(s2,
            [Unwrap(found) EXCEPT !.status = "WaitingForUser",
                                  !.waiting_request_id = Some(e.request_id),
                                  !.waiting_question_ids = QuestionIds],
            SubtaskEvent(<<"waiting_for_user:">> \o Colon(Unwrap(found).id, e.request_key),
                         "waiting_for_user", e.received_at_ms),
            "waiting_for_user", e.received_at_ms))))

on_approval_requested(s, e) ==
    Bind(UpsertPendingApproval(s,
            [request_key |-> e.request_key, workspace_id |-> e.workspace_id,
             thread_id |-> e.thread_id, turn_id |-> e.turn_id, item_id |-> e.item_id,
             request_id |-> e.request_id, created_at_ms |-> e.received_at_ms,
             resolved_at_ms |-> None]), LAMBDA s1 :
    Bind(push_signal(s1, <<"approval:">> \o e.request_key, "NeedsApproval",
                     Some(e.workspace_id), e.thread_id, e.received_at_ms), LAMBDA s2 :
    Bind(push_activity(s2,
            <<"approval:">> \o Colon(e.request_key, NumStr(e.received_at_ms)),
            "needs_approval", Some(e.workspace_id), e.thread_id, TRUE, e.received_at_ms),
         LAMBDA s3 :
    Bind(job_for_event(s3, e.workspace_id, e.thread_id), LAMBDA found :
    IF ~IsSome(found) THEN s3
    ELSE apply_job_event(s3,
            [Unwrap(found) EXCEPT !.status = "WaitingForUser"],
            SubtaskEvent(<<"approval_requested:">> \o Colon(Unwrap(found).id, e.request_key),
                         "waiting_for_user", e.received_at_ms),
            "needs_approval", e.received_at_ms)))))

\* the job fails whether the child will retry or not
on_error_never_retried(s, e) ==
    Bind(IF IsSome(e.thread_id)
         THEN apply_thread_activity(s, e.workspace_id, Unwrap(e.thread_id), e.turn_id,
                                    "Failed", e.received_at_ms)
         ELSE s, LAMBDA s1 :
    Bind(push_signal(s1,
            <<"error:">> \o Colon(e.workspace_id, Colon(OrEmpty(e.thread_id),
                OrEmpty(e.turn_id))),
            "Failed", Some(e.workspace_id), e.thread_id, e.received_at_ms), LAMBDA s2 :
    Bind(push_activity(s2,
            <<"error:">> \o Colon(e.workspace_id, Colon(OrEmpty(e.thread_id),
                Colon(OrEmpty(e.turn_id), NumStr(e.received_at_ms)))),
            "error", Some(e.workspace_id), e.thread_id, FALSE, e.received_at_ms),
         LAMBDA s3 :
    Bind(job_for_event(s3, e.workspace_id, e.thread_id), LAMBDA found :
    IF ~IsSome(found) THEN s3
    ELSE apply_job_event(s3,
            [Unwrap(found) EXCEPT
                !.status = "Failed",
                !.error = Some(e.message)],
            SubtaskEvent(<<"error:">> \o Colon(e.workspace_id, Colon(OrEmpty(e.thread_id),
                            OrEmpty(e.turn_id))), "failed", e.received_at_ms),
            "error", e.received_at_ms)))))

on_error(s, e) ==
    Bind(IF IsSome(e.thread_id)
         THEN apply_thread_activity(s, e.workspace_id, Unwrap(e.thread_id), e.turn_id,
                                    "Failed", e.received_at_ms)
         ELSE s, LAMBDA s1 :
    Bind(push_signal(s1,
            <<"error:">> \o Colon(e.workspace_id, Colon(OrEmpty(e.thread_id),
                OrEmpty(e.turn_id))),
            "Failed", Some(e.workspace_id), e.thread_id, e.received_at_ms), LAMBDA s2 :
    Bind(push_activity(s2,
            <<"error:">> \o Colon(e.workspace_id, Colon(OrEmpty(e.thread_id),
                Colon(OrEmpty(e.turn_id), NumStr(e.received_at_ms)))),
            "error", Some(e.workspace_id), e.thread_id, FALSE, e.received_at_ms),
         LAMBDA s3 :
    Bind(job_for_event(s3, e.workspace_id, e.thread_id), LAMBDA found :
    IF ~IsSome(found) THEN s3
    ELSE apply_job_event(s3,
            [Unwrap(found) EXCEPT
                !.status = IF e.will_retry THEN "Running" ELSE "Failed",
                !.error = IF e.will_retry THEN @ ELSE Some(e.message)],
            SubtaskEvent(<<"error:">> \o Colon(e.workspace_id, Colon(OrEmpty(e.thread_id),
                            OrEmpty(e.turn_id))), "failed", e.received_at_ms),
            "error", e.received_at_ms)))))

apply_supervisor_event(s, e) ==
    CASE e.kind = "TurnStarted" -> on_turn_started(s, e)
      [] e.kind = "TurnCompleted" -> on_turn_completed(s, e)
      [] e.kind = "ItemStarted" -> on_item(s, e, "item_started")
      [] e.kind = "ItemCompleted" -> on_item(s, e, "item_completed")
      [] e.kind = "UserInputRequested" -> on_user_input_requested(s, e)
      [] e.kind = "ApprovalRequested" -> on_approval_requested(s, e)
      [] e.kind = "Error" -> on_error(s, e)

\* the codex/connected branch of apply_app_server_event
on_connected(s, workspace_id, received_at_ms) ==
    Bind(UpsertWorkspace(s,
            [workspace_state(s, workspace_id) EXCEPT
                !.connected = TRUE,
                !.health = "Healthy",
                !.last_activity_at_ms = Some(received_at_ms)]), LAMBDA s1 :
    push_activity(s1, <<"connected:">> \o Colon(workspace_id, NumStr(received_at_ms)),
                  "workspace_connected", Some(workspace_id), None, FALSE, received_at_ms))

\* a message that is dropped registers the workspace
apply_app_server_event_registering(s, workspace_id, message, received_at_ms) ==
    Bind(record_workspace_heartbeat(s, workspace_id, received_at_ms), LAMBDA s1 :
    Bind(normalize_app_server_event(workspace_id, message, received_at_ms), LAMBDA event :
    IF IsSome(event) THEN apply_supervisor_event(s1, Unwrap(event))
    ELSE IF message.method = "codex/connected"
    THEN on_connected(s1, workspace_id, received_at_ms)
    ELSE UpsertWorkspace(s1, workspace_state(s1, workspace_id))))

apply_app_server_event(s, workspace_id, message, received_at_ms) ==
    Bind(record_workspace_heartbeat(s, workspace_id, received_at_ms), LAMBDA s1 :
    Bind(normalize_app_server_event(workspace_id, message, received_at_ms), LAMBDA event :
    IF IsSome(event) THEN apply_supervisor_event(s1, Unwrap(event))
    ELSE IF message.method = "codex/connected"
    THEN on_connected(s1, workspace_id, received_at_ms)
    ELSE s1))

\* i64::saturating_sub; the timestamps of the model stay far from the ends of i64
saturating_sub(a, b) == a - b

compute_health_reversed(s, snapshot, now_ms) ==
    IF ~snapshot.connected THEN "Disconnected"
    ELSE IF snapshot.workspace_id \notin DOMAIN s.workspace_last_event_at_ms THEN "Stale"
    ELSE LET age == saturating_sub(now_ms, s.workspace_last_event_at_ms[snapshot.workspace_id])
         IN IF age >= s.config.stale_after_ms THEN "Stale"
            ELSE IF age >= s.config.disconnected_after_ms THEN "Disconnected"
            ELSE "Healthy"

compute_health(s, snapshot, now_ms) ==
    IF ~snapshot.connected THEN "Disconnected"
    ELSE IF snapshot.workspace_id \notin DOMAIN s.workspace_last_event_at_ms THEN "Stale"
    ELSE LET age == saturating_sub(now_ms, s.workspace_last_event_at_ms[snapshot.workspace_id])
         IN IF age >= s.config.disconnected_after_ms THEN "Disconnected"
            ELSE IF age >= s.config.stale_after_ms THEN "Stale"
            ELSE "Healthy"

health_always_changed(previous_health, next_health) == TRUE

\* run_health_check: `previous_health == next_health` skips the signal
health_changed(previous_health, next_health) == previous_health # next_health

\* the body of run_health_check's loop, for one snapshot
check_workspace(s, snapshot, now_ms) ==
    LET previous_health ==
            IF snapshot.workspace_id \in DOMAIN s.workspaces
            THEN s.workspaces[snapshot.workspace_id].health ELSE "Healthy"
        next_health == compute_health(s, snapshot, now_ms)
        last_activity ==
            IF snapshot.workspace_id \in DOMAIN s.workspace_last_event_at_ms
            THEN Some(s.workspace_last_event_at_ms[snapshot.workspace_id]) ELSE None
        existing == workspace_state(s, snapshot.workspace_id)
        workspace ==
            [existing EXCEPT
                !.name = IF IsSome(normalize_optional(snapshot.workspace_name))
                         THEN Unwrap(normalize_optional(snapshot.workspace_name)) ELSE @,
                !.connected = snapshot.connected,
                !.health = next_health,
                !.last_activity_at_ms = IF IsSome(last_activity) THEN last_activity ELSE @]
    IN
    Bind(UpsertWorkspace(s, workspace), LAMBDA s1 :
    IF ~health_changed(previous_health, next_health) THEN s1
    ELSE IF next_health = "Stale"
    THEN push_signal(s1, <<"health:">> \o snapshot.workspace_id \o <<":stalled">>,
                     "Stalled", Some(snapshot.workspace_id), None, now_ms)
    ELSE IF next_health = "Disconnected"
    THEN push_signal(s1, <<"health:">> \o snapshot.workspace_id \o <<":disconnected">>,
                     "Disconnected", Some(snapshot.workspace_id), None, now_ms)
    ELSE s1)

RECURSIVE run_health_check_from(_, _, _, _)
run_health_check_from(s, snapshots, i, now_ms) ==
    IF i > Len(snapshots) THEN s
    ELSE Bind(check_workspace(s, snapshots[i], now_ms), LAMBDA s1 :
              run_health_check_from(s1, snapshots, i + 1, now_ms))

run_health_check(s, snapshots, now_ms) == run_health_check_from(s, snapshots, 1, now_ms)

-----------------------------------------------------------------------------
(* loop.rs: reply delivery. *)

\* request_value_key, for a request id that is a JSON string
request_value_key(workspace_id, request_id) ==
    IF Trim(request_id) # <<>> THEN Colon(workspace_id, Trim(request_id))
    ELSE workspace_id \o <<":", "\"">> \o request_id \o <<"\"">>

\* mark_reply_delivered: [ok, loop]
mark_reply_delivered(s, job_id, request_id, delivered_at_ms) ==
    IF job_id \notin DOMAIN s.jobs THEN [ok |-> FALSE, loop |-> s]
    ELSE IF s.jobs[job_id].status # "WaitingForUser" THEN [ok |-> FALSE, loop |-> s]
    ELSE IF ~IsSome(s.jobs[job_id].waiting_request_id) THEN [ok |-> FALSE, loop |-> s]
    ELSE IF Unwrap(s.jobs[job_id].waiting_request_id) # request_id
    THEN [ok |-> FALSE, loop |-> s]
    ELSE
    LET request_key == request_value_key(s.jobs[job_id].workspace_id, request_id) IN
    Bind(append_subtask_event(
            [s.jobs[job_id] EXCEPT !.status = "Running",
                                   !.waiting_request_id = None,
                                   !.waiting_question_ids = <<>>],
            SubtaskEvent(<<"reply_delivered:">> \o Colon(job_id, request_key),
                         "reply_delivered", delivered_at_ms)).job, LAMBDA updated :
    Bind(UpsertJob(s, updated), LAMBDA s1 :
    Bind(ResolveOpenQuestion(s1, request_key, delivered_at_ms), LAMBDA s2 :
    Bind(push_activity(s2,
            <<"reply_delivered:">> \o Colon(updated.id, Colon(request_key,
                NumStr(delivered_at_ms))),
            "reply_delivered", Some(updated.workspace_id), updated.thread_id, FALSE,
            delivered_at_ms), LAMBDA s3 :
    [ok |-> TRUE,
     loop |-> push_subtask_chat_message(s3, updated, "reply_delivered", delivered_at_ms)]))))

\* the failure leaves no trace
mark_reply_delivery_dropped(s, job_id, request_id, failed_at_ms) == s

mark_reply_delivery_failed(s, job_id, request_id, failed_at_ms) ==
    IF job_id \notin DOMAIN s.jobs THEN s
    ELSE
    LET request_key == request_value_key(s.jobs[job_id].workspace_id, request_id) IN
    Bind(append_subtask_event(s.jobs[job_id],
            SubtaskEvent(<<"reply_delivery_failed:">> \o Colon(job_id, request_key),
                         "failed", failed_at_ms)), LAMBDA r :
    Bind(UpsertJob(s, r.job), LAMBDA s1 :
    Bind(push_activity(s1,
            <<"reply_delivery_failed:">> \o Colon(job_id, Colon(request_key,
                NumStr(failed_at_ms))),
            "reply_delivery_failed", Some(r.job.workspace_id), r.job.thread_id, TRUE,
            failed_at_ms), LAMBDA s2 :
    IF r.added
    THEN push_subtask_chat_message(s2, r.job, "reply_delivery_failed", failed_at_ms)
    ELSE s2)))

-----------------------------------------------------------------------------
(* contract.rs: the action contract.  A contract value is a record         *)
(* [version, actions, unknown_field]; an action of it is a record          *)
(* [type, action_id, workspace_id, prompt, thread_id, dedupe_key,          *)
(* unknown_field]; unknown_field says that the JSON object has a key the   *)
(* struct does not declare.                                                *)

SUPERVISOR_ACTION_CONTRACT_VERSION == <<"supervisor.dispatch.v1">>

Ok(value) == [ok |-> TRUE, value |-> value]
Err(error) == [ok |-> FALSE, error |-> error]

normalize_required_unchecked(field_name, value) == Ok(Trim(value))

normalize_required(field_name, value) ==
    IF Trim(value) = <<>> THEN Err(<<field_name, " is required">>) ELSE Ok(Trim(value))

normalize_dispatch_turn_action(action) ==
    LET action_id == normalize_required("action_id", action.action_id)
        workspace_id == normalize_required("workspace_id", action.workspace_id)
        prompt == normalize_required("prompt", action.prompt)
    IN
    IF ~action_id.ok THEN action_id
    ELSE IF ~workspace_id.ok THEN workspace_id
    ELSE IF ~prompt.ok THEN prompt
    ELSE Ok([action_id |-> action_id.value,
             workspace_id |-> workspace_id.value,
             thread_id |-> normalize_optional(action.thread_id),
             prompt |-> prompt.value,
             dedupe_key |-> normalize_optional(action.dedupe_key),
             access_mode |-> None])

unscoped_dedupe_key(workspace_id, dedupe_token) == dedupe_token

\* format!("{}:{dedupe_token}", dispatch_action.workspace_id)
scoped_dedupe_key(workspace_id, dedupe_token) == workspace_id \o <<":">> \o dedupe_token

\* the loop of validate_supervisor_action_contract, from action i on
RECURSIVE validate_actions_from(_, _, _, _, _)
validate_actions_from(actions, i, seen_action_ids, seen_dedupe_keys, dispatch_actions) ==
    IF i > Len(actions) THEN Ok(dispatch_actions)
    ELSE
    Bind(normalize_dispatch_turn_action(actions[i]), LAMBDA normalized :
    IF ~normalized.ok THEN normalized
    ELSE
    LET turn_action == normalized.value
        dedupe_token ==
            IF IsSome(turn_action.dedupe_key) /\ Trim(Unwrap(turn_action.dedupe_key)) # <<>>
            THEN Trim(Unwrap(turn_action.dedupe_key))
            ELSE turn_action.action_id
        scoped == scoped_dedupe_key(turn_action.workspace_id, dedupe_token)
    IN
    IF turn_action.action_id \in seen_action_ids
    THEN Err(<<"duplicate action_id in supervisor contract">>)
    ELSE IF scoped \in seen_dedupe_keys
    THEN Err(<<"duplicate dedupe key for workspace">>)
    ELSE validate_actions_from(actions, i + 1,
                               seen_action_ids \cup {turn_action.action_id},
                               seen_dedupe_keys \cup {scoped},
                               Append(dispatch_actions, turn_action)))

validate_supervisor_action_contract(contract) ==
    IF Trim(contract.version) # SUPERVISOR_ACTION_CONTRACT_VERSION
    THEN Err(<<"unsupported supervisor contract version">>)
    ELSE IF contract.actions = <<>>
    THEN Err(<<"actions must contain at least one item">>)
    ELSE validate_actions_from(contract.actions, 1, {}, {}, <<>>)

\* serde_json::from_value with deny_unknown_fields, then the validation
parse_supervisor_action_contract_value(value) ==
    IF \/ value.unknown_field
       \/ \E i \in 1..Len(value.actions) :
            value.actions[i].type # "dispatch_turn" \/ value.actions[i].unknown_field
    THEN Err(<<"invalid supervisor action contract">>)
    ELSE validate_supervisor_action_contract(value)

-----------------------------------------------------------------------------
(* service.rs: dispatch outcomes and supervisor_dispatch_core. *)

\* the job is upserted and no event is fed to the loop
apply_dispatch_outcome_job_only(s, result, timestamp_ms) ==
    UpsertJob(s,
        [id |-> result.action_id,
         workspace_id |-> result.workspace_id,
         thread_id |-> result.thread_id,
         dedupe_key |-> Some(result.dedupe_key),
         status |-> IF result.status = "Dispatched" THEN "Running" ELSE "Failed",
         requested_at_ms |-> timestamp_ms,
         started_at_ms |-> IF result.status = "Dispatched" THEN Some(timestamp_ms) ELSE None,
         completed_at_ms |-> IF result.status = "Dispatched" THEN None ELSE Some(timestamp_ms),
         error |-> IF result.status = "Dispatched" THEN None
                   ELSE IF IsSome(result.error) THEN result.error
                   ELSE Some(<<"Supervisor dispatch failed">>),
         waiting_request_id |-> None,
         waiting_question_ids |-> <<>>,
         recent_events |-> <<>>])

\* the body of apply_dispatch_outcome_events' loop, for one result
apply_dispatch_outcome(s, result, timestamp_ms) ==
    LET job == [id |-> result.action_id,
                workspace_id |-> result.workspace_id,
                thread_id |-> result.thread_id,
                dedupe_key |-> Some(result.dedupe_key),
                status |-> "Queued",
                requested_at_ms |-> timestamp_ms,
                started_at_ms |-> None,
                completed_at_ms |-> None,
                error |-> None,
                waiting_request_id |-> None,
                waiting_question_ids |-> <<>>,
                recent_events |-> <<>>]
        queued == SubtaskEvent(<<"queued:">> \o Colon(job.id, NumStr(timestamp_ms)),
                               "queued", timestamp_ms)
    IN
    IF result.status = "Dispatched"
    THEN Bind(UpsertJob(s,
                [job EXCEPT !.status = "Running",
                            !.started_at_ms = Some(timestamp_ms),
                            !.recent_events =
                                <<queued,
                                  SubtaskEvent(<<"running:">> \o Colon(job.id,
                                                  NumStr(timestamp_ms)),
                                               "running", timestamp_ms)>>]), LAMBDA s1 :
         IF ~IsSome(result.thread_id) \/ ~IsSome(result.turn_id) THEN s1
         ELSE apply_app_server_event(s1, result.workspace_id,
                Message("turn/started", None, result.thread_id, result.turn_id, None, None,
                        FALSE),
                timestamp_ms))
    ELSE LET message == IF IsSome(result.error) THEN Unwrap(result.error)
                        ELSE <<"Supervisor dispatch failed">>
         IN
         Bind(UpsertJob(s,
                [job EXCEPT !.status = "Failed",
                            !.error = Some(message),
                            !.completed_at_ms = Some(timestamp_ms),
                            !.recent_events =
                                <<queued,
                                  SubtaskEvent(<<"failed:">> \o Colon(job.id,
                                                  NumStr(timestamp_ms)),
                                               "failed", timestamp_ms)>>]), LAMBDA s1 :
         apply_app_server_event(s1, result.workspace_id,
                Message("error", None, result.thread_id, None, None, Some(message), FALSE),
                timestamp_ms))

RECURSIVE apply_dispatch_outcome_from(_, _, _, _)
apply_dispatch_outcome_from(s, results, i, timestamp_ms) ==
    IF i > Len(results) THEN s
    ELSE Bind(apply_dispatch_outcome(s, results[i], timestamp_ms), LAMBDA s1 :
              apply_dispatch_outcome_from(s1, results, i + 1, timestamp_ms))

apply_dispatch_outcome_events(s, results, timestamp_ms) ==
    apply_dispatch_outcome_from(s, results, 1, timestamp_ms)

\* supervisor_dispatch_core, run without another call in between:
\* [ok, error | results, store, calls, entries, loop]
supervisor_dispatch_core(b, store, cs, s, contract, batch, timestamp_ms) ==
    Bind(parse_supervisor_action_contract_value(contract), LAMBDA validated :
    IF ~validated.ok
    THEN [ok |-> FALSE, error |-> validated.error, store |-> store, calls |-> cs,
          entries |-> <<>>, loop |-> s]
    ELSE Bind(dispatch_batch(b, store, cs, validated.value, batch), LAMBDA out :
         [ok |-> TRUE, results |-> out.results, store |-> out.store, calls |-> out.calls,
          entries |-> out.entries,
          loop |-> apply_dispatch_outcome_events(s, out.results, timestamp_ms)]))

\* dispatch_executor.lock(): the mutex is taken whatever its state
executor_always_available(lock) == TRUE

\* dispatch_executor.lock(): the mutex can be taken when nobody holds it
executor_available(lock) == lock = None

-----------------------------------------------------------------------------
(* The concurrent callers of the service. *)

Tasks == 1..NumTasks

IdleTask ==
    [pc |-> "idle", contract |-> None, actions |-> <<>>, idx |-> 0, results |-> <<>>,
     normalized |-> None, thread_id |-> None, response |-> None]

NoTasks == [t \in Tasks |-> IdleTask]

-----------------------------------------------------------------------------
(* The executor driven directly, batch after batch (SpecExec). *)

Action(action_id, workspace_id, thread_id, prompt, dedupe_key, access_mode) ==
    [action_id |-> action_id, workspace_id |-> workspace_id, thread_id |-> thread_id,
     prompt |-> prompt, dedupe_key |-> dedupe_key, access_mode |-> access_mode]

\* the actions a batch is drawn from
ActionPool ==
    { Action(<<"p">>, <<"a">>, None, <<"x">>, None, None),
      Action(<<"q">>, <<" ", "a">>, Some(<<"t">>), <<"x">>, Some(<<" ", "p", " ">>), None),
      Action(<<"q">>, <<"a", ":", "b">>, None, <<"x">>, Some(<<"p">>),
             Some(<<" ", "c", "u", "r", "r", "e", "n", "t">>)),
      Action(<<"r">>, <<"a">>, None, <<"x">>, Some(<<"b", ":", "p">>), None),
      Action(<<" ">>, <<"a">>, None, <<"x">>, None, None),
      Action(<<"s">>, <<>>, None, <<"x">>, Some(<<"p">>), None),
      Action(<<"s">>, <<"a">>, Some(<<"t">>), <<" ">>, None, None),
      Action(<<"s">>, <<"a">>, None, <<"x">>, Some(<<" ">>),
             Some(<<"r", "e", "a", "d">>)) }

Batches == UNION {[1..n -> ActionPool] : n \in 0..MaxBatchLen}

InitExec ==
    /\ idempotency = <<>>
    /\ calls = <<>>
    /\ backend \in BackendModes
    /\ history = <<>>
    /\ nbatch = 0
    /\ last_batch = [actions |-> <<>>, results |-> <<>>]
    /\ sup = new(DefaultConfig)
    /\ last_op = NoOp
    /\ nops = 0
    /\ tasks = NoTasks
    /\ executor_lock = None
    /\ loop_lock = None
    /\ app_locks = NoAppLocks

\* a test or the service calls dispatch_batch
DispatchBatch ==
    \E actions \in Batches :
        /\ nbatch < MaxDispatched
        /\ Len(history) + Len(actions) <= MaxDispatched
        /\ \E out \in {dispatch_batch(backend, idempotency, calls, actions, nbatch + 1)} :
           /\ idempotency' = out.store
           /\ calls' = out.calls
           /\ history' = history \o out.entries
           /\ nbatch' = nbatch + 1
           /\ last_batch' = [actions |-> actions, results |-> out.results]
        /\ UNCHANGED <<backend, sup, last_op, nops, tasks, executor_lock, loop_lock, app_locks>>

\* the environment: sessions connect, disconnect, start or stop failing
SetBackend ==
    /\ \E b \in BackendModes : b # backend /\ backend' = b
    /\ UNCHANGED <<idempotency, calls, history, nbatch, last_batch, sup, last_op, nops, tasks,
                   executor_lock, loop_lock, app_locks>>

NextExec == DispatchBatch \/ SetBackend

SpecExec == InitExec /\ [][NextExec]_vars

-----------------------------------------------------------------------------
(* Properties of the executor. *)

Valid(action) == try_from(action).ok

\* the normalized (workspace_id, dedupe_token) of a valid action
Pair(action) ==
    LET n == try_from(action).value IN <<n.workspace_id, n.dedupe_token>>

\* the entry made backend calls
Executed(e) == e.calls_to > e.calls_from

Entries == 1..Len(history)

\* C1: an action whose normalized (workspace_id, dedupe_token) equals that of an
\* earlier backend-executed action gets that action's thread_id, turn_id and
\* status back, flagged idempotent_replay, and makes no backend call.
C1_IdempotentReplay ==
    \A i, j \in Entries :
        ( /\ i < j
          /\ Valid(history[i].action) /\ Valid(history[j].action)
          /\ Pair(history[i].action) = Pair(history[j].action)
          /\ Executed(history[i]) )
        => /\ history[j].result.idempotent_replay = TRUE
           /\ history[j].result.thread_id = history[i].result.thread_id
           /\ history[j].result.turn_id = history[i].result.turn_id
           /\ history[j].result.status = history[i].result.status
           /\ history[j].calls_to = history[j].calls_from

\* a dispatched action is replayed by a later action with another action id
C1_Witness ==
    \E i, j \in Entries :
        /\ i < j
        /\ Valid(history[i].action) /\ Valid(history[j].action)
        /\ Pair(history[i].action) = Pair(history[j].action)
        /\ history[i].action.action_id # history[j].action.action_id
        /\ Executed(history[i])
        /\ history[i].result.status = "Dispatched"
        /\ IsSome(history[i].result.turn_id)
        /\ history[j].result.idempotent_replay

\* C3: the idempotency key is the pair (workspace_id, dedupe_token): an action
\* is answered from the store only if an earlier action had the same normalized
\* pair, so equal dedupe keys on different workspaces are both executed.
C3_KeyIsPair ==
    \A j \in Entries :
        history[j].result.idempotent_replay
        => \E i \in Entries :
              /\ i < j
              /\ Valid(history[i].action)
              /\ Pair(history[i].action) = Pair(history[j].action)

\* C4: dispatch_batch returns one result per input action, in input order, and
\* the backend calls are sequential: the calls of an action precede those of
\* the next, and an action's thread call precedes its start_turn.
C4_OrderedResults ==
    /\ Len(last_batch.results) = Len(last_batch.actions)
    /\ \A i \in 1..Len(last_batch.actions) :
          IF Valid(last_batch.actions[i])
          THEN last_batch.results[i].action_id = Trim(last_batch.actions[i].action_id)
          ELSE last_batch.results[i].action_id = last_batch.actions[i].action_id
    /\ \A c, d \in 1..Len(calls) :
          c < d =>
            /\ calls[c].batch <= calls[d].batch
            /\ calls[c].batch = calls[d].batch => calls[c].idx <= calls[d].idx
            /\ (calls[c].batch = calls[d].batch /\ calls[c].idx = calls[d].idx)
                 => (calls[c].op # "start_turn" /\ calls[d].op = "start_turn")

\* a batch of two different actions, both executed against the backend
C4_Witness ==
    /\ Len(last_batch.actions) = 2
    /\ last_batch.results[1].action_id # last_batch.results[2].action_id
    /\ \E c, d \in 1..Len(calls) :
          /\ calls[c].batch = nbatch /\ calls[c].idx = 1 /\ calls[c].op = "start_turn"
          /\ calls[d].batch = nbatch /\ calls[d].idx = 2 /\ calls[d].op = "start_turn"

\* C5: a failure ends the backend calls of its action and comes back as a
\* Failed result: an action that fails normalization makes no call, a failed
\* thread call or an error embedded in its response prevents start_turn, and
\* the later actions of the batch are still executed.
C5_FailureStopsAction ==
    \A k \in Entries :
        LET e == history[k] IN
        /\ ~Valid(e.action) =>
              /\ e.calls_to = e.calls_from
              /\ e.result.status = "Failed"
              /\ IsSome(e.result.error)
        /\ \A c \in (e.calls_from + 1)..e.calls_to :
              /\ calls[c].batch = e.batch /\ calls[c].idx = e.idx
              /\ calls[c].outcome # "ok" =>
                    /\ c = e.calls_to
                    /\ e.result.status = "Failed"
                    /\ IsSome(e.result.error)
        /\ (Valid(e.action) /\ ~e.result.idempotent_replay) => Executed(e)

\* in one batch, a thread call fails and the next action is still dispatched
C5_Witness ==
    \E k \in Entries :
        /\ k + 1 \in Entries
        /\ history[k].batch = history[k + 1].batch
        /\ history[k].calls_to = history[k].calls_from + 1
        /\ calls[history[k].calls_to].op \in {"start_thread", "resume_thread"}
        /\ calls[history[k].calls_to].outcome # "ok"
        /\ history[k].result.status = "Failed"
        /\ history[k + 1].result.status = "Dispatched"
        /\ Executed(history[k + 1])

-----------------------------------------------------------------------------
(* The loop under heartbeats and health pulls (SpecHealth). *)

MaxTime == 3
MaxHealthOps == 3

Times == 0..MaxTime

\* the workspaces that send events, and when; workspace b is only ever listed
EventWorkspaces == { <<"a">> }
EventTimes == {0, 1}

\* messages that only count as activity: an unmapped method, a connect, a turn start
HealthMessages ==
    { Message("thread/updated", None, None, None, None, None, FALSE),
      Message("codex/connected", None, None, None, None, None, FALSE),
      Message("turn/started", None, Some(<<"t">>), Some(<<"u">>), None, None, FALSE) }

HealthInput(workspace_id, workspace_name, connected) ==
    [workspace_id |-> workspace_id, workspace_name |-> workspace_name, connected |-> connected]

SnapshotLists ==
    { << HealthInput(<<"a">>, Some(<<"w">>), TRUE) >>,
      << HealthInput(<<"a">>, Some(<<" ">>), FALSE) >>,
      << HealthInput(<<"b">>, None, TRUE) >>,
      << HealthInput(<<"a">>, Some(<<"w">>), TRUE), HealthInput(<<"b">>, None, FALSE) >>,
      << HealthInput(<<"a">>, None, FALSE), HealthInput(<<"a">>, None, TRUE) >> }

InitHealth ==
    /\ idempotency = <<>>
    /\ calls = <<>>
    /\ backend = "ok"
    /\ history = <<>>
    /\ nbatch = 0
    /\ last_batch = [actions |-> <<>>, results |-> <<>>]
    /\ \E config \in Configs : sup = new(config)
    /\ last_op = NoOp
    /\ nops = 0
    /\ tasks = NoTasks
    /\ executor_lock = None
    /\ loop_lock = None
    /\ app_locks = NoAppLocks

\* a session event reaches apply_app_server_event
AppServerEvent ==
    \E workspace_id \in EventWorkspaces, message \in HealthMessages,
       received_at_ms \in EventTimes :
        /\ nops < MaxHealthOps
        /\ \E out \in {apply_app_server_event([sup EXCEPT !.pushed = <<>>], workspace_id,
                                              message, received_at_ms)} :
           sup' = out
        /\ last_op' = [kind |-> "event", workspace_id |-> workspace_id,
                       message |-> message, received_at_ms |-> received_at_ms]
        /\ nops' = nops + 1
        /\ UNCHANGED <<execVars, serviceVars>>

\* run_health_pull_tick calls run_health_check
HealthCheck ==
    \E snapshots \in SnapshotLists, now_ms \in Times :
        /\ nops < MaxHealthOps
        /\ \E out \in {run_health_check([sup EXCEPT !.pushed = <<>>], snapshots, now_ms)} :
           sup' = out
        /\ last_op' = [kind |-> "health", snapshots |-> snapshots, now_ms |-> now_ms,
                       before |-> sup]
        /\ nops' = nops + 1
        /\ UNCHANGED <<execVars, serviceVars>>

NextHealth == AppServerEvent \/ HealthCheck

SpecHealth == InitHealth /\ [][NextHealth]_vars

-----------------------------------------------------------------------------
(* Properties of the health pull. *)

\* the health the rule of the specification gives a snapshot, from the last
\* recorded event times `last`
RuleHealth(last, config, snapshot, now_ms) ==
    CHOOSE h \in {"Healthy", "Stale", "Disconnected"} :
        LET known == snapshot.workspace_id \in DOMAIN last
            age == now_ms - last[snapshot.workspace_id]
        IN
        /\ h = "Disconnected" <=>
                \/ ~snapshot.connected
                \/ known /\ age >= config.disconnected_after_ms
        /\ h = "Stale" <=>
                /\ snapshot.connected
                /\ \/ ~known
                   \/ age < config.disconnected_after_ms /\ age >= config.stale_after_ms

\* the health stored for the workspace of snapshot i when the check reaches it
StoredBefore(before, snapshots, i) ==
    LET w == snapshots[i].workspace_id
        earlier == { j \in 1..(i - 1) : snapshots[j].workspace_id = w }
    IN
    IF earlier # {}
    THEN RuleHealth(before.workspace_last_event_at_ms, before.config,
                    snapshots[CHOOSE j \in earlier : \A k \in earlier : k <= j],
                    last_op.now_ms)
    ELSE IF w \in DOMAIN before.workspaces THEN before.workspaces[w].health
    ELSE "Healthy"

\* the signals a check has to push, snapshot by snapshot
RECURSIVE ExpectedPushes(_, _, _)
ExpectedPushes(before, snapshots, i) ==
    IF i > Len(snapshots) THEN <<>>
    ELSE LET next == RuleHealth(before.workspace_last_event_at_ms, before.config,
                                snapshots[i], last_op.now_ms)
             w == snapshots[i].workspace_id
             here ==
                IF next = StoredBefore(before, snapshots, i) \/ next = "Healthy" THEN <<>>
                ELSE IF next = "Stale"
                THEN << [id |-> <<"health:">> \o w \o <<":stalled">>, kind |-> "Stalled"] >>
                ELSE << [id |-> <<"health:">> \o w \o <<":disconnected">>,
                         kind |-> "Disconnected"] >>
         IN here \o ExpectedPushes(before, snapshots, i + 1)

\* C8: a health check pushes, for each listed workspace, exactly one signal
\* when the computed health differs from the stored one (Stalled for Stale,
\* Disconnected for Disconnected, nothing for Healthy) and no signal when it
\* is the same, so a repeated check pushes nothing more
C8_HealthEdgeTrigger ==
    last_op.kind = "health" =>
        sup.pushed = ExpectedPushes(last_op.before, last_op.snapshots, 1)

\* a check found a workspace Stale that was already stored Stale with its
\* signal pushed, and pushed nothing
C8_Witness ==
    /\ last_op.kind = "health"
    /\ Len(last_op.snapshots) = 1
    /\ LET w == last_op.snapshots[1].workspace_id IN
       /\ w \in DOMAIN last_op.before.workspaces
       /\ last_op.before.workspaces[w].health = "Stale"
       /\ sup.workspaces[w].health = "Stale"
       /\ \E i \in 1..Len(sup.signals) : sup.signals[i].kind = "Stalled"
    /\ sup.pushed = <<>>

\* C9: after a health check every listed workspace has the health of the
\* rule: Disconnected if not connected, else Stale if no event was recorded,
\* else by age with both thresholds inclusive and Disconnected first
C9_HealthRule ==
    last_op.kind = "health" =>
        \A i \in 1..Len(last_op.snapshots) :
            (\A j \in (i + 1)..Len(last_op.snapshots) :
                last_op.snapshots[j].workspace_id # last_op.snapshots[i].workspace_id)
            => LET w == last_op.snapshots[i].workspace_id IN
               /\ w \in DOMAIN sup.workspaces
               /\ sup.workspaces[w].health =
                     RuleHealth(last_op.before.workspace_last_event_at_ms,
                                last_op.before.config, last_op.snapshots[i], last_op.now_ms)

\* a connected workspace whose age is exactly disconnected_after_ms, above
\* stale_after_ms, was set Disconnected
C9_Witness ==
    /\ last_op.kind = "health"
    /\ \E i \in 1..Len(last_op.snapshots) :
        LET snapshot == last_op.snapshots[i]
            last == last_op.before.workspace_last_event_at_ms
        IN
        /\ i = Len(last_op.snapshots)
        /\ snapshot.connected
        /\ snapshot.workspace_id \in DOMAIN last
        /\ last_op.now_ms - last[snapshot.workspace_id] = sup.config.disconnected_after_ms
        /\ sup.config.stale_after_ms < sup.config.disconnected_after_ms
        /\ sup.workspaces[snapshot.workspace_id].health = "Disconnected"

-----------------------------------------------------------------------------
(* Jobs under dispatch outcomes, session events and replies (SpecJobs). *)

MaxJobOps == 3

JobTimes == {0, 1}

RawAction(action_id, workspace_id, prompt, thread_id, dedupe_key) ==
    [type |-> "dispatch_turn", action_id |-> action_id, workspace_id |-> workspace_id,
     prompt |-> prompt, thread_id |-> thread_id, dedupe_key |-> dedupe_key,
     unknown_field |-> FALSE]

Contract(version, actions) ==
    [version |-> version, actions |-> actions, unknown_field |-> FALSE]

\* one action on thread t of workspace a, where the backend may fail, and one on
\* workspace b
JobContracts ==
    { Contract(SUPERVISOR_ACTION_CONTRACT_VERSION,
               << RawAction(<<"p">>, <<"a">>, <<"x">>, Some(<<"t">>), None) >>),
      Contract(SUPERVISOR_ACTION_CONTRACT_VERSION,
               << RawAction(<<"q">>, <<"b">>, <<"x">>, Some(<<"t">>), None) >>) }

JobMessages ==
    { Message("turn/started", None, Some(<<"t">>), Some(<<"u">>), None, None, FALSE),
      Message("turn/completed", None, Some(<<"t">>), Some(<<"u">>), None, None, FALSE),
      Message("item/started", None, Some(<<"t">>), None, Some(<<"i">>), None, FALSE),
      Message("item/completed", None, Some(<<"t">>), None, Some(<<"i">>), None, FALSE),
      Message("item/tool/requestUserInput", Some(<<"7">>), Some(<<"t">>), Some(<<"u">>),
              Some(<<"i">>), None, FALSE),
      Message("workspace/requestApproval", Some(<<"8">>), Some(<<"t">>), Some(<<"u">>),
              Some(<<"i">>), None, FALSE),
      Message("error", None, Some(<<"t">>), Some(<<"u">>), None, Some(<<"x">>), FALSE),
      Message("error", None, Some(<<"t">>), Some(<<"u">>), None, Some(<<"x">>), TRUE) }

JobIds == { <<"p">>, <<"q">> }
RequestIds == { <<"7">>, <<"8">> }

InitJobs ==
    /\ idempotency = <<>>
    /\ calls = <<>>
    /\ backend \in {"ok", "turn_error"}
    /\ history = <<>>
    /\ nbatch = 0
    /\ last_batch = [actions |-> <<>>, results |-> <<>>]
    /\ sup = new(DefaultConfig)
    /\ last_op = NoOp
    /\ nops = 0
    /\ tasks = NoTasks
    /\ executor_lock = None
    /\ loop_lock = None
    /\ app_locks = NoAppLocks

\* one supervisor_dispatch_core call, alone
JobDispatch ==
    \E contract \in JobContracts, timestamp_ms \in JobTimes :
        /\ nops < MaxJobOps
        /\ \E out \in {supervisor_dispatch_core(backend, idempotency, calls,
                                                [sup EXCEPT !.pushed = <<>>], contract,
                                                nbatch + 1, timestamp_ms)} :
           /\ idempotency' = out.store
           /\ calls' = out.calls
           /\ history' = history \o out.entries
           /\ sup' = out.loop
           /\ last_batch' = IF out.ok
                            THEN [actions |-> contract.actions, results |-> out.results]
                            ELSE last_batch
        /\ nbatch' = nbatch + 1
        /\ last_op' = [kind |-> "dispatch", contract |-> contract,
                       timestamp_ms |-> timestamp_ms]
        /\ nops' = nops + 1
        /\ UNCHANGED <<backend, serviceVars>>

\* a session of workspace a sends a message about thread t
JobSessionEvent ==
    \E message \in JobMessages, received_at_ms \in JobTimes :
        /\ nops < MaxJobOps
        /\ \E out \in {apply_app_server_event([sup EXCEPT !.pushed = <<>>], <<"a">>, message,
                                              received_at_ms)} :
           sup' = out
        /\ last_op' = [kind |-> "event", workspace_id |-> <<"a">>, message |-> message,
                       received_at_ms |-> received_at_ms]
        /\ nops' = nops + 1
        /\ UNCHANGED <<execVars, serviceVars>>

\* the reply to a child request was delivered to the session
ReplyDelivered ==
    \E job_id \in JobIds, request_id \in RequestIds, delivered_at_ms \in JobTimes :
        /\ nops < MaxJobOps
        /\ \E out \in {mark_reply_delivered([sup EXCEPT !.pushed = <<>>], job_id, request_id,
                                            delivered_at_ms)} :
           /\ sup' = out.loop
           /\ last_op' = [kind |-> "reply_delivered", job_id |-> job_id,
                          request_id |-> request_id, delivered_at_ms |-> delivered_at_ms,
                          ok |-> out.ok]
        /\ nops' = nops + 1
        /\ UNCHANGED <<execVars, serviceVars>>

\* the reply could not be delivered
ReplyDeliveryFailed ==
    \E job_id \in JobIds, request_id \in RequestIds, failed_at_ms \in JobTimes :
        /\ nops < MaxJobOps
        /\ \E out \in {mark_reply_delivery_failed([sup EXCEPT !.pushed = <<>>], job_id,
                                                  request_id, failed_at_ms)} :
           sup' = out
        /\ last_op' = [kind |-> "reply_delivery_failed", job_id |-> job_id,
                       request_id |-> request_id]
        /\ nops' = nops + 1
        /\ UNCHANGED <<execVars, serviceVars>>

NextJobs == JobDispatch \/ JobSessionEvent \/ ReplyDelivered \/ ReplyDeliveryFailed

SpecJobs == InitJobs /\ [][NextJobs]_vars

\* C10: every job has status WaitingForUser if and only if its
\* waiting_request_id is set
C10_JobWaitingInvariant ==
    \A id \in DOMAIN sup.jobs :
        sup.jobs[id].status = "WaitingForUser" <=> IsSome(sup.jobs[id].waiting_request_id)

-----------------------------------------------------------------------------
(* Concurrent supervisor_dispatch_core calls sharing one executor and one  *)
(* loop (SpecService).  A call is split where the code awaits: the mutex,  *)
(* each backend call, the loop lock.                                       *)

PaddedVersion == <<" ", "supervisor.dispatch.v1", " ">>

WithUnknownField(value) == [value EXCEPT !.unknown_field = TRUE]

Contracts ==
    LET V == SUPERVISOR_ACTION_CONTRACT_VERSION
        plain == RawAction(<<"p">>, <<"a">>, <<"x">>, None, None)
    IN
    { Contract(V, << plain >>),
      Contract(V, << RawAction(<<"q">>, <<" ", "a">>, <<"x">>, Some(<<"t">>),
                               Some(<<" ", "p", " ">>)),
                     RawAction(<<"r">>, <<"b">>, <<"x">>, None, Some(<<"p">>)) >>),
      Contract(PaddedVersion, << plain >>),
      Contract(<<"supervisor.dispatch.v0">>, << plain >>),
      Contract(V, <<>>),
      Contract(V, << plain, RawAction(<<"q">>, <<"a">>, <<" ">>, None, None) >>),
      Contract(V, << plain, RawAction(<<" ", "p">>, <<"b">>, <<"x">>, None, None) >>),
      Contract(V, << plain, RawAction(<<"q">>, <<"a">>, <<"x">>, None, Some(<<"p">>)) >>),
      WithUnknownField(Contract(V, << plain >>)),
      Contract(V, << WithUnknownField(plain) >>),
      Contract(V, << RawAction(<<" ">>, <<"a">>, <<"x">>, None, None) >>),
      Contract(V, << plain, RawAction(<<"q">>, <<>>, <<"x">>, None, None) >>),
      Contract(V, << [plain EXCEPT !.type = "cancel_turn"] >>) }

InitService ==
    /\ idempotency = <<>>
    /\ calls = <<>>
    /\ backend \in BackendModes
    /\ history = <<>>
    /\ nbatch = 0
    /\ last_batch = [actions |-> <<>>, results |-> <<>>]
    /\ sup = new(DefaultConfig)
    /\ last_op = NoOp
    /\ nops = 0
    /\ tasks = NoTasks
    /\ executor_lock = None
    /\ loop_lock = None
    /\ app_locks = NoAppLocks

\* the result of the current action is known: go to the next action
next_action(task, result) ==
    [task EXCEPT !.pc = "action", !.idx = @ + 1, !.results = Append(@, result),
                 !.normalized = None, !.thread_id = None]

\* supervisor_dispatch_core is called: the contract is parsed and validated
DispatchCall(t) ==
    \E contract \in Contracts :
        /\ tasks[t].pc = "idle"
        /\ \E validated \in {parse_supervisor_action_contract_value(contract)} :
              tasks' = [tasks EXCEPT ![t] =
                  IF validated.ok
                  THEN [@ EXCEPT !.pc = "lock", !.contract = Some(contract),
                                 !.actions = validated.value]
                  ELSE [@ EXCEPT !.pc = "done", !.contract = Some(contract),
                                 !.response = Some(Err(validated.error))]]
        /\ UNCHANGED <<execVars, loopVars, executor_lock, loop_lock, app_locks>>

\* dispatch_executor.lock().await returns
LockExecutor(t) ==
    /\ tasks[t].pc = "lock"
    /\ executor_available(executor_lock)
    /\ executor_lock' = Some(t)
    /\ tasks' = [tasks EXCEPT ![t] = [@ EXCEPT !.pc = "action", !.idx = 1]]
    /\ UNCHANGED <<execVars, loopVars, loop_lock, app_locks>>

\* dispatch_action up to its first await: normalization and the store lookup
ActionStart(t) ==
    /\ tasks[t].pc = "action"
    /\ tasks[t].idx <= Len(tasks[t].actions)
    /\ \E normalized \in {try_from(tasks[t].actions[tasks[t].idx])} :
          tasks' = [tasks EXCEPT ![t] =
              IF ~normalized.ok
              THEN next_action(@, invalid_action_result(tasks[t].actions[tasks[t].idx],
                                                        normalized.error))
              ELSE IF idempotency_key(normalized.value) \in DOMAIN idempotency
              THEN next_action(@, replay_result(
                                    idempotency[idempotency_key(normalized.value)],
                                    normalized.value))
              ELSE [@ EXCEPT !.pc = "thread", !.normalized = Some(normalized.value)]]
    /\ UNCHANGED <<execVars, loopVars, executor_lock, loop_lock, app_locks>>

\* ensure_thread's backend call returns
ThreadCall(t) ==
    /\ tasks[t].pc = "thread"
    /\ LET action == Unwrap(tasks[t].normalized) IN
       \E th \in {ensure_thread(backend, calls, action, [batch |-> t, idx |-> tasks[t].idx])} :
          /\ calls' = th.calls
          /\ IF th.ok
             THEN /\ tasks' = [tasks EXCEPT ![t] =
                                  [@ EXCEPT !.pc = "turn", !.thread_id = Some(th.thread_id)]]
                  /\ UNCHANGED idempotency
             ELSE LET result == failed_dispatch_result(action, th.error, None, None, FALSE) IN
                  /\ idempotency' = store_insert(idempotency, idempotency_key(action), result)
                  /\ tasks' = [tasks EXCEPT ![t] = next_action(@, result)]
    /\ UNCHANGED <<backend, history, nbatch, last_batch, loopVars, executor_lock, loop_lock, app_locks>>

\* the start_turn call returns and the result is stored
TurnCall(t) ==
    /\ tasks[t].pc = "turn"
    /\ LET action == Unwrap(tasks[t].normalized) IN
       \E out \in {start_turn_call(backend, calls, action, Unwrap(tasks[t].thread_id),
                                   [batch |-> t, idx |-> tasks[t].idx])} :
          /\ calls' = out.calls
          /\ idempotency' = store_insert(idempotency, idempotency_key(action), out.result)
          /\ tasks' = [tasks EXCEPT ![t] = next_action(@, out.result)]
    /\ UNCHANGED <<backend, history, nbatch, last_batch, loopVars, executor_lock, loop_lock, app_locks>>

\* dispatch_batch returns and the guard of the mutex is dropped
UnlockExecutor(t) ==
    /\ tasks[t].pc = "action"
    /\ tasks[t].idx > Len(tasks[t].actions)
    /\ executor_lock' = None
    /\ tasks' = [tasks EXCEPT ![t] = [@ EXCEPT !.pc = "outcome"]]
    /\ UNCHANGED <<execVars, loopVars, loop_lock, app_locks>>

\* apply_dispatch_outcome_events under the loop lock, and the return
ApplyOutcome(t) ==
    \E timestamp_ms \in JobTimes :
        /\ tasks[t].pc = "outcome"
        /\ \E out \in {apply_dispatch_outcome_events([sup EXCEPT !.pushed = <<>>],
                                                     tasks[t].results, timestamp_ms)} :
           sup' = out
        /\ last_op' = [kind |-> "outcome", task |-> t, timestamp_ms |-> timestamp_ms]
        /\ nops' = nops + 1
        /\ tasks' = [tasks EXCEPT ![t] =
                        [@ EXCEPT !.pc = "done", !.response = Some(Ok(tasks[t].results))]]
        /\ UNCHANGED <<execVars, executor_lock, loop_lock, app_locks>>

NextService ==
    \E t \in Tasks :
        \/ DispatchCall(t)
        \/ LockExecutor(t)
        \/ ActionStart(t)
        \/ ThreadCall(t)
        \/ TurnCall(t)
        \/ UnlockExecutor(t)
        \/ ApplyOutcome(t)

SpecService == InitService /\ [][NextService]_vars

-----------------------------------------------------------------------------
(* Properties of the service. *)

\* the action a backend call of the service was made for
CallAction(c) == tasks[c.batch].actions[c.idx]

StartTurns == { i \in 1..Len(calls) : calls[i].op = "start_turn" }

\* C2: over every interleaving of the concurrent calls, the backend's
\* start_turn is invoked at most once for each (workspace_id, dedupe_token)
C2_ExactlyOnceDispatch ==
    \A i, j \in StartTurns :
        i # j => Pair(CallAction(calls[i])) # Pair(CallAction(calls[j]))

\* two calls have finished whose first actions share (workspace_id,
\* dedupe_token): one start_turn was made and the other call got the replay
C2_Witness ==
    \E t, u \in Tasks :
        /\ t # u
        /\ tasks[t].pc = "done" /\ tasks[u].pc = "done"
        /\ Unwrap(tasks[t].response).ok /\ Unwrap(tasks[u].response).ok
        /\ Pair(tasks[t].actions[1]) = Pair(tasks[u].actions[1])
        /\ tasks[t].results[1].status = "Dispatched"
        /\ ~tasks[t].results[1].idempotent_replay
        /\ tasks[u].results[1].idempotent_replay
        /\ Cardinality({ i \in StartTurns :
                            Pair(CallAction(calls[i])) = Pair(tasks[t].actions[1]) }) = 1

Blank(value) == Trim(value) = <<>>

\* the parts of a contract that make it invalid whatever its version
MalformedBody(contract) ==
    \/ contract.actions = <<>>
    \/ contract.unknown_field
    \/ \E i \in 1..Len(contract.actions) :
        LET action == contract.actions[i] IN
        \/ action.unknown_field
        \/ Blank(action.action_id)
        \/ Blank(action.workspace_id)
        \/ Blank(action.prompt)

\* invalid, the version compared as it was sent
InvalidAsSent(contract) ==
    contract.version # SUPERVISOR_ACTION_CONTRACT_VERSION \/ MalformedBody(contract)

\* invalid, the version compared without its surrounding whitespace
InvalidTrimmed(contract) ==
    Trim(contract.version) # SUPERVISOR_ACTION_CONTRACT_VERSION \/ MalformedBody(contract)

\* the call of task t has just been made with a contract of this kind
CalledWith(t, Invalid(_)) ==
    /\ tasks[t].pc = "idle"
    /\ tasks'[t].pc # "idle"
    /\ Invalid(Unwrap(tasks'[t].contract))

\* the call of task t returns an error at once and has no effect
RejectedAsAWhole(t) ==
    /\ tasks'[t].pc = "done"
    /\ ~Unwrap(tasks'[t].response).ok
    /\ UNCHANGED <<idempotency, calls, sup>>

\* C6 as stated: a contract whose version is not exactly
\* supervisor.dispatch.v1, or with no action, a blank required field or an
\* unknown field, is rejected as a whole
C6_Original ==
    [][\A t \in Tasks : CalledWith(t, InvalidAsSent) => RejectedAsAWhole(t)]_vars

\* C6, amended: a contract whose version, without surrounding whitespace, is
\* not supervisor.dispatch.v1, or with no action, a blank action_id,
\* workspace_id or prompt, or an unknown top-level or per-action field, gets
\* an error, causes no backend call and leaves the idempotency store and the
\* SupervisorState unchanged
C6_InvalidContractRejected ==
    [][\A t \in Tasks : CalledWith(t, InvalidTrimmed) => RejectedAsAWhole(t)]_vars

\* a contract whose first action is fine and whose second has a blank field
\* was rejected, and no backend call was made
C6_Witness ==
    \E t \in Tasks :
        /\ tasks[t].pc = "done"
        /\ ~Unwrap(tasks[t].response).ok
        /\ LET contract == Unwrap(tasks[t].contract) IN
           /\ Len(contract.actions) = 2
           /\ ~contract.unknown_field
           /\ ~MalformedBody([contract EXCEPT !.actions = SubSeq(@, 1, 1)])
           /\ MalformedBody(contract)
        /\ calls = <<>>
        /\ idempotency = <<>>

\* dedupe_token = dedupe_key ?? action_id, on the fields as the contract trims them
TokenOf(action) ==
    IF IsSome(action.dedupe_key) /\ ~Blank(Unwrap(action.dedupe_key))
    THEN Trim(Unwrap(action.dedupe_key))
    ELSE Trim(action.action_id)

SharedActionId(contract) ==
    \E i, j \in 1..Len(contract.actions) :
        i # j /\ Trim(contract.actions[i].action_id) = Trim(contract.actions[j].action_id)

SharedPair(contract) ==
    \E i, j \in 1..Len(contract.actions) :
        /\ i # j
        /\ Trim(contract.actions[i].workspace_id) = Trim(contract.actions[j].workspace_id)
        /\ TokenOf(contract.actions[i]) = TokenOf(contract.actions[j])

\* several actions, one dedupe token, all on different workspaces
SameKeyAcrossWorkspaces(contract) ==
    /\ Len(contract.actions) > 1
    /\ \A i, j \in 1..Len(contract.actions) :
        i # j =>
            /\ TokenOf(contract.actions[i]) = TokenOf(contract.actions[j])
            /\ Trim(contract.actions[i].workspace_id) # Trim(contract.actions[j].workspace_id)

Rejected(t) == tasks[t].pc = "done" /\ ~Unwrap(tasks[t].response).ok

\* C7: a contract with two actions of one action_id, or of one
\* (workspace_id, dedupe_token), is rejected; a well-formed contract that
\* repeats a dedupe_key only across workspaces is accepted; the actions of an
\* accepted contract have pairwise distinct idempotency keys
C7_ContractDedupe ==
    \A t \in Tasks :
        tasks[t].pc # "idle" =>
            LET contract == Unwrap(tasks[t].contract) IN
            /\ (SharedActionId(contract) \/ SharedPair(contract)) => Rejected(t)
            /\ (/\ ~InvalidTrimmed(contract)
                /\ \A i \in 1..Len(contract.actions) :
                        contract.actions[i].type = "dispatch_turn"
                /\ ~SharedActionId(contract)
                /\ SameKeyAcrossWorkspaces(contract)) => ~Rejected(t)
            /\ ~Rejected(t) =>
                \A i, j \in 1..Len(tasks[t].actions) :
                    i # j => idempotency_key(try_from(tasks[t].actions[i]).value)
                                # idempotency_key(try_from(tasks[t].actions[j]).value)

\* a contract with one dedupe_key on two workspaces went through: both
\* actions reached the backend and neither is a replay
C7_Witness ==
    \E t \in Tasks :
        /\ tasks[t].pc = "done"
        /\ Unwrap(tasks[t].response).ok
        /\ SameKeyAcrossWorkspaces(Unwrap(tasks[t].contract))
        /\ Len(tasks[t].results) = 2
        /\ \A i \in 1..2 : ~tasks[t].results[i].idempotent_replay
        /\ Cardinality({ i \in StartTurns : calls[i].batch = t }) = 2


-----------------------------------------------------------------------------
(* service.rs: the two chat lines of one supervisor_chat_send_core call.   *)
(* Uuid::new_v4 is modelled as a counter: its n-th value is NumStr(n).     *)

\* the command is stored as a line of the supervisor
user_message_as_system(command, received_at_ms, uuid) ==
    [id |-> <<"chat-user-">> \o NumStr(received_at_ms) \o <<"-">> \o NumStr(uuid),
     role |-> "System", text |-> command, created_at_ms |-> received_at_ms]

user_message(command, received_at_ms, uuid) ==
    [id |-> <<"chat-user-">> \o NumStr(received_at_ms) \o <<"-">> \o NumStr(uuid),
     role |-> "User", text |-> command, created_at_ms |-> received_at_ms]

system_message(response_text, received_at_ms, uuid, now_ms) ==
    [id |-> <<"chat-system-">> \o NumStr(received_at_ms) \o <<"-">> \o NumStr(uuid),
     role |-> "System", text |-> response_text, created_at_ms |-> now_ms]

\* format_help_message
format_help_message == <<"Supported commands:">>

-----------------------------------------------------------------------------
(* The capped containers next to their caps (SpecCaps).  The loop starts   *)
(* after `sends` /help chat commands, `connects` codex/connected messages  *)
(* of workspace b, one dispatch of action p to thread t of workspace a     *)
(* and `items` completed items of that thread; the long lists of that      *)
(* state are written down directly.                                        *)

MaxCapOps == 2

CapTimes == {0, 1}

\* the activity entry a codex/connected message of workspace b leaves at time i
ConnectedEntry(i) ==
    [id |-> <<"connected:">> \o Colon(<<"b">>, NumStr(i)), kind |-> "workspace_connected",
     created_at_ms |-> i, workspace_id |-> Some(<<"b">>), thread_id |-> None,
     needs_input |-> FALSE]

\* the loop after `sends` /help commands at time 0 and then `connects`
\* codex/connected messages of workspace b at the times 1..connects
PreLoop(config, sends, connects) ==
    [new(config) EXCEPT
        !.chat_history =
            [k \in 1..(2 * sends) |->
                IF k % 2 = 1
                THEN user_message(<<"/", "help">>, 0, k)
                ELSE system_message(format_help_message, 0, k, 0)],
        !.uuids = 2 * sends,
        !.activity_feed = [i \in 1..connects |-> ConnectedEntry(connects + 1 - i)],
        !.workspaces =
            IF connects = 0 THEN <<>>
            ELSE MapPut(<<>>, <<"b">>,
                    [workspace_state(new(config), <<"b">>) EXCEPT
                        !.connected = TRUE,
                        !.health = "Healthy",
                        !.last_activity_at_ms = Some(connects)]),
        !.workspace_last_event_at_ms =
            IF connects = 0 THEN <<>> ELSE MapPut(<<>>, <<"b">>, connects)]

\* item/completed for the items 1..items of thread t, at time 0
RECURSIVE ItemFill(_, _)
ItemFill(s, items) ==
    IF items = 0 THEN s
    ELSE Bind(ItemFill(s, items - 1), LAMBDA s1 :
         apply_app_server_event(s1, <<"a">>,
            Message("item/completed", None, Some(<<"t">>), None, Some(NumStr(items)),
                    None, FALSE), 0))

\* [config, sends, connects, items]: a fresh loop with a small feed, then loops
\* one or two entries below the cap of the chat history, of the activity
\* feed, of the job's events, and of all three
CapFills ==
    { [config |-> DefaultConfig, sends |-> 0, connects |-> 0, items |-> 0],
      [config |-> [DefaultConfig EXCEPT !.activity_feed_limit = 0],
       sends |-> 249, connects |-> 0, items |-> 0],
      [config |-> [DefaultConfig EXCEPT !.activity_feed_limit = 0],
       sends |-> 0, connects |-> 198, items |-> 0],
      [config |-> [DefaultConfig EXCEPT !.activity_feed_limit = 0],
       sends |-> 0, connects |-> 0, items |-> 20],
      [config |-> [DefaultConfig EXCEPT !.activity_feed_limit = 0],
       sends |-> 249, connects |-> 178, items |-> 21] }

CapMessages ==
    { Message("codex/connected", None, None, None, None, None, FALSE),
      Message("item/completed", None, Some(<<"t">>), None, Some(<<"x">>), None, FALSE),
      Message("item/completed", None, Some(<<"t">>), None, Some(<<"y">>), None, FALSE),
      Message("turn/completed", None, Some(<<"t">>), Some(<<"u">>), None, None, FALSE) }

InitCaps ==
    /\ backend = "ok"
    /\ history = <<>>
    /\ nbatch = 1
    /\ \E fill \in CapFills :
       \E out \in {supervisor_dispatch_core("ok", <<>>, <<>>,
                        PreLoop(fill.config, fill.sends, fill.connects),
                        Contract(SUPERVISOR_ACTION_CONTRACT_VERSION,
                            << RawAction(<<"p">>, <<"a">>, <<"x">>, Some(<<"t">>), None) >>),
                        1, 0)} :
            /\ idempotency = out.store
            /\ calls = out.calls
            /\ last_batch = [actions |-> <<>>, results |-> out.results]
            /\ sup = [ItemFill(out.loop, fill.items) EXCEPT !.pushed = <<>>]
    /\ last_op = NoOp
    /\ nops = 0
    /\ tasks = NoTasks
    /\ executor_lock = None
    /\ loop_lock = None
    /\ app_locks = NoAppLocks

\* a session of workspace a sends a message
CapSessionEvent ==
    \E message \in CapMessages, received_at_ms \in CapTimes :
        /\ nops < MaxCapOps
        /\ \E out \in {apply_app_server_event([sup EXCEPT !.pushed = <<>>], <<"a">>, message,
                                              received_at_ms)} :
           sup' = out
        /\ last_op' = [kind |-> "event", workspace_id |-> <<"a">>, message |-> message,
                       received_at_ms |-> received_at_ms]
        /\ nops' = nops + 1
        /\ UNCHANGED <<execVars, serviceVars>>

NextCaps == CapSessionEvent

SpecCaps == InitCaps /\ [][NextCaps]_vars

Min(a, b) == IF a < b THEN a ELSE b

\* the ids of a list of entries
Ids(entries) == {entries[i].id : i \in 1..Len(entries)}

\* the entries whose id is not in `ids`, in order
Without(entries, ids) == SelectSeq(entries, LAMBDA e : e.id \notin ids)

\* a newest-first list over its cap: what is kept is what the operation
\* inserted (two entries at most), in front, and then the newest of the earlier entries, in order
KeptNewestFirst(old, now, limit) ==
    \E m \in 0..Min(2, Len(now)) :
        LET all == SubSeq(now, 1, m) \o Without(old, Ids(SubSeq(now, 1, m))) IN
        /\ Len(all) > limit
        /\ now = SubSeq(all, 1, limit)

\* an oldest-first list over its cap: what is kept is the newest of the
\* earlier entries, in order, and then what the operation inserted
KeptNewestLast(old, now, limit) ==
    \E m \in 0..Min(2, Len(now)) :
        LET ins == SubSeq(now, Len(now) - m + 1, Len(now))
            all == Without(old, Ids(ins)) \o ins
        IN
        /\ Len(all) > limit
        /\ now = SubSeq(all, Len(all) - limit + 1, Len(all))

\* an entry of `old` is no longer in `now`
Dropped(old, now) == Ids(old) \ Ids(now) # {}

FeedLimit(s) ==
    IF s.config.activity_feed_limit = 0 THEN 200 ELSE s.config.activity_feed_limit

Bounded(s) ==
    /\ Len(s.activity_feed) <= FeedLimit(s)
    /\ \A id \in DOMAIN s.jobs : Len(s.jobs[id].recent_events) <= 24
    /\ Len(s.chat_history) <= 500

\* `now` is `old` with `entry` put in front and cut to the newest `limit` entries
InFront(old, now, entry, limit) ==
    /\ Len(now) = Min(limit, Len(Without(old, {entry.id})) + 1)
    /\ now[1] = entry
    /\ \A i \in 2..Len(now) : now[i] = Without(old, {entry.id})[i - 1]

\* `now` is `old` with `entry` put at the end and cut to the newest `limit` entries
AtEnd(old, now, entry, limit) ==
    LET rest == Without(old, {entry.id}) IN
    /\ Len(now) = Min(limit, Len(rest) + 1)
    /\ now[Len(now)] = entry
    /\ \A i \in 1..(Len(now) - 1) : now[i] = rest[Len(rest) - (Len(now) - 1) + i]

\* an entry, an event and a message that are pushed next, with an id that
\* is new
NextEntry ==
    [id |-> <<"next">>, kind |-> "next", created_at_ms |-> 1, workspace_id |-> None,
     thread_id |-> None, needs_input |-> FALSE]
NextEvent == SubtaskEvent(<<"next">>, "next", 1)
NextMessage == user_message(<<"next">>, 1, 0)

\* whatever is pushed next into a container of `s` is kept, in front of (or
\* after) the newest of the entries the container holds
NextIsKept(s) ==
    /\ InFront(s.activity_feed,
               push_activity(s, NextEntry.id, NextEntry.kind, None, None, FALSE, 1).activity_feed,
               NextEntry, FeedLimit(s))
    /\ \A id \in DOMAIN s.jobs :
            /\ append_subtask_event(s.jobs[id], NextEvent).added
            /\ AtEnd(s.jobs[id].recent_events,
                     append_subtask_event(s.jobs[id], NextEvent).job.recent_events,
                     NextEvent, 24)
    /\ AtEnd(s.chat_history, append_chat_message(s, NextMessage).chat_history,
             NextMessage, 500)

\* C11: the activity feed holds at most the configured limit of entries (200
\* when the limit is 0), every job at most 24 recent events and the chat
\* history at most 500 messages; an entry pushed into a full container is
\* kept, and an operation that makes a container drop entries keeps the most
\* recently inserted ones
C11_BoundedContainers ==
    /\ Bounded(sup)
    /\ NextIsKept(sup)
    /\ [][/\ Bounded(sup')
          /\ NextIsKept(sup')
          /\ Dropped(sup.activity_feed, sup'.activity_feed)
                => KeptNewestFirst(sup.activity_feed, sup'.activity_feed, FeedLimit(sup))
          /\ \A id \in (DOMAIN sup.jobs) \cap (DOMAIN sup'.jobs) :
                Dropped(sup.jobs[id].recent_events, sup'.jobs[id].recent_events)
                    => KeptNewestLast(sup.jobs[id].recent_events,
                                      sup'.jobs[id].recent_events, 24)
          /\ Dropped(sup.chat_history, sup'.chat_history)
                => KeptNewestLast(sup.chat_history, sup'.chat_history, 500)]_vars

\* one more completed item has pushed the oldest entry out of the feed of 200,
\* out of the 24 events of job p and out of the 500 chat messages
C11_Witness ==
    /\ sup.config.activity_feed_limit = 0
    /\ Len(sup.activity_feed) = 200
    /\ ConnectedEntry(1).id \notin Ids(sup.activity_feed)
    /\ ConnectedEntry(2).id \in Ids(sup.activity_feed)
    /\ <<"p">> \in DOMAIN sup.jobs
    /\ Len(sup.jobs[<<"p">>].recent_events) = 24
    /\ sup.jobs[<<"p">>].recent_events[1].kind # "queued"
    /\ Len(sup.chat_history) = 500
    /\ sup.chat_history[1].role = "System"

-----------------------------------------------------------------------------
(* supervisor_core.rs: apply_update, one update at a time.  An update is a *)
(* record whose `type` names the variant of SupervisorStateUpdate.         *)

apply_update(s, update) ==
    CASE update.type = "UpsertWorkspace" -> UpsertWorkspace(s, update.workspace)
      [] update.type = "RemoveWorkspace" -> RemoveWorkspace(s, update.workspace_id)
      [] update.type = "UpsertThread" -> UpsertThread(s, update.thread)
      [] update.type = "RemoveThread" -> RemoveThread(s, update.workspace_id, update.thread_id)
      [] update.type = "UpsertJob" -> UpsertJob(s, update.job)
      [] update.type = "RemoveJob" -> RemoveJob(s, update.job_id)
      [] update.type = "UpdateJobStatus" ->
            UpdateJobStatus(s, update.job_id, update.status, update.at_ms, update.error)
      [] update.type = "PushSignal" -> PushSignal(s, update.signal)
      [] update.type = "AckSignal" -> AckSignal(s, update.signal_id, update.acknowledged_at_ms)
      [] update.type = "PushActivity" -> PushActivity(s, update.entry, update.max_items)
      [] update.type = "PushChatMessage" -> PushChatMessage(s, update.message, update.max_items)
      [] update.type = "UpsertOpenQuestion" -> UpsertOpenQuestion(s, update.question)
      [] update.type = "ResolveOpenQuestion" ->
            ResolveOpenQuestion(s, update.question_id, update.resolved_at_ms)
      [] update.type = "UpsertPendingApproval" -> UpsertPendingApproval(s, update.approval)
      [] update.type = "ResolvePendingApproval" ->
            ResolvePendingApproval(s, update.request_key, update.resolved_at_ms)

-----------------------------------------------------------------------------
(* Specification SpecReducer: a loop whose state is changed by single      *)
(* updates, over two workspaces a and b that both have a thread t.         *)

\* number of updates applied in one behaviour
MaxReducerOps == 4

ReducerWorkspaces == { <<"a">>, <<"b">> }

ReducerConfigs ==
    { DefaultConfig,
      [stale_after_ms |-> 2, disconnected_after_ms |-> 3, activity_feed_limit |-> 2] }

ReducerJob(id, workspace_id, at_ms) ==
    [id |-> id, workspace_id |-> workspace_id, thread_id |-> Some(<<"t">>),
     dedupe_key |-> None, status |-> "Queued", requested_at_ms |-> at_ms,
     started_at_ms |-> None, completed_at_ms |-> None, error |-> None,
     waiting_request_id |-> None, waiting_question_ids |-> <<>>, recent_events |-> <<>>]

\* the job of each workspace
JobOf(workspace_id) == IF workspace_id = <<"a">> THEN <<"p">> ELSE <<"q">>

\* the ids of the signals, activity entries and chat messages pushed
PushIds == { <<"x">>, <<"y">>, <<"z">> }

\* the updates applied to state `s` at time `at_ms`
ReducerUpdates(s, at_ms) ==
    { [type |-> "UpsertWorkspace", workspace |-> workspace_state(s, w)] :
        w \in ReducerWorkspaces }
    \cup { [type |-> "RemoveWorkspace", workspace_id |-> w] : w \in ReducerWorkspaces }
    \cup { [type |-> "UpsertThread", thread |-> thread_state(s, w, <<"t">>)] :
            w \in ReducerWorkspaces }
    \cup { [type |-> "RemoveThread", workspace_id |-> w, thread_id |-> <<"t">>] :
            w \in ReducerWorkspaces }
    \cup { [type |-> "UpsertJob", job |-> ReducerJob(JobOf(w), w, at_ms)] :
            w \in ReducerWorkspaces }
    \cup { [type |-> "RemoveJob", job_id |-> <<"p">>] }
    \cup { [type |-> "UpdateJobStatus", job_id |-> <<"p">>, status |-> status,
            at_ms |-> at_ms, error |-> None] : status \in {"Running", "Completed"} }
    \cup { [type |-> "PushSignal",
            signal |-> [id |-> id, kind |-> "Completed", workspace_id |-> Some(<<"a">>),
                        thread_id |-> None, job_id |-> None, created_at_ms |-> at_ms,
                        acknowledged_at_ms |-> None]] : id \in PushIds }
    \cup { [type |-> "AckSignal", signal_id |-> <<"x">>, acknowledged_at_ms |-> at_ms] }
    \cup { [type |-> "PushActivity",
            entry |-> [id |-> id, kind |-> "turn_started", created_at_ms |-> at_ms,
                       workspace_id |-> Some(<<"a">>), thread_id |-> None,
                       needs_input |-> FALSE],
            max_items |-> s.config.activity_feed_limit] : id \in PushIds }
    \cup { [type |-> "PushChatMessage", message |-> user_message(<<"hi">>, 0, 0),
            max_items |-> DEFAULT_CHAT_HISTORY_LIMIT] }
    \cup { [type |-> "UpsertOpenQuestion",
            question |-> [id |-> request_value_key(w, <<"1">>), workspace_id |-> w,
                          thread_id |-> <<"t">>, created_at_ms |-> at_ms,
                          resolved_at_ms |-> None]] : w \in ReducerWorkspaces }
    \cup { [type |-> "ResolveOpenQuestion",
            question_id |-> request_value_key(<<"a">>, <<"1">>), resolved_at_ms |-> at_ms] }
    \cup { [type |-> "UpsertPendingApproval",
            approval |-> [request_key |-> request_value_key(w, <<"1">>), workspace_id |-> w,
                          thread_id |-> Some(<<"t">>), turn_id |-> None, item_id |-> None,
                          request_id |-> <<"1">>, created_at_ms |-> at_ms,
                          resolved_at_ms |-> None]] : w \in ReducerWorkspaces }
    \cup { [type |-> "ResolvePendingApproval",
            request_key |-> request_value_key(<<"a">>, <<"1">>), resolved_at_ms |-> at_ms] }

InitReducer ==
    /\ idempotency = <<>>
    /\ calls = <<>>
    /\ backend = "ok"
    /\ history = <<>>
    /\ nbatch = 0
    /\ last_batch = [actions |-> <<>>, results |-> <<>>]
    /\ sup \in {new(config) : config \in ReducerConfigs}
    /\ last_op = NoOp
    /\ nops = 0
    /\ tasks = NoTasks
    /\ executor_lock = None
    /\ loop_lock = None
    /\ app_locks = NoAppLocks

\* one update is applied to the state; the n-th update happens at time n
ApplyUpdate ==
    /\ nops < MaxReducerOps
    /\ \E update \in ReducerUpdates(sup, nops) :
        /\ \E out \in {apply_update(sup, update)} : sup' = out
        /\ last_op' = [kind |-> "update", update |-> update, before |-> sup]
    /\ nops' = nops + 1
    /\ UNCHANGED <<execVars, serviceVars>>

NextReducer == ApplyUpdate

SpecReducer == InitReducer /\ [][NextReducer]_vars

HasId(entries, id) == \E i \in 1..Len(entries) : entries[i].id = id

UniqueIds(entries) ==
    \A i, j \in 1..Len(entries) : entries[i].id = entries[j].id => i = j

\* `now` is `old` with the entry of this id replaced by `entry` and moved to
\* position 0 (the first of the sequence)
MovedToFront(old, now, entry) ==
    /\ Len(now) = Len(old)
    /\ now[1] = entry
    /\ Without(now, {entry.id}) = Without(old, {entry.id})
    /\ Len(Without(now, {entry.id})) = Len(now) - 1

\* C12: a PushSignal or PushActivity with an id that is already present
\* leaves the length of the sequence unchanged, puts the new payload at
\* position 0 and keeps the order of the other entries; every id occurs at
\* most once in signals and in activity_feed
C12_PushMovesToFront ==
    /\ UniqueIds(sup.signals) /\ UniqueIds(sup.activity_feed)
    /\ [][/\ UniqueIds(sup'.signals) /\ UniqueIds(sup'.activity_feed)
          /\ last_op'.update.type = "PushSignal"
                /\ HasId(sup.signals, last_op'.update.signal.id)
                => MovedToFront(sup.signals, sup'.signals, last_op'.update.signal)
          /\ last_op'.update.type = "PushActivity"
                /\ HasId(sup.activity_feed, last_op'.update.entry.id)
                => MovedToFront(sup.activity_feed, sup'.activity_feed,
                                last_op'.update.entry)]_vars

\* a signal and an activity entry that were third of three have been pushed
\* again with another payload
C12_Witness ==
    /\ last_op.kind = "update"
    /\ \/ /\ last_op.update.type = "PushSignal"
          /\ Len(last_op.before.signals) = 3
          /\ last_op.before.signals[3].id = last_op.update.signal.id
          /\ last_op.before.signals[3] # last_op.update.signal
          /\ sup.signals[1] = last_op.update.signal
          /\ sup.signals[2] = last_op.before.signals[1]
       \/ /\ last_op.update.type = "PushActivity"
          /\ Len(last_op.before.activity_feed) = 3
          /\ last_op.before.activity_feed[3].id = last_op.update.entry.id
          /\ last_op.before.activity_feed[3] # last_op.update.entry
          /\ sup.activity_feed[1] = last_op.update.entry
          /\ sup.activity_feed[2] = last_op.before.activity_feed[1]

\* the values of `map` that belong to workspace `w`
OfWorkspace(map, w) == {k \in DOMAIN map : map[k].workspace_id = w}

\* the part of `map` that belongs to other workspaces than `w`
OfOthers(map, w) == [k \in (DOMAIN map) \ OfWorkspace(map, w) |-> map[k]]

Cascaded(old, now, w) == OfWorkspace(now, w) = {} /\ now = OfOthers(old, w)

\* C13: after RemoveWorkspace(w) no thread, job, open question or pending
\* approval of workspace w remains, and those of other workspaces are
\* unchanged
C13_RemoveWorkspaceCascade ==
    [][last_op'.update.type = "RemoveWorkspace" =>
        LET w == last_op'.update.workspace_id IN
        /\ w \notin DOMAIN sup'.workspaces
        /\ Cascaded(sup.threads, sup'.threads, w)
        /\ Cascaded(sup.jobs, sup'.jobs, w)
        /\ Cascaded(sup.open_questions, sup'.open_questions, w)
        /\ Cascaded(sup.pending_approvals, sup'.pending_approvals, w)]_vars

\* workspace a was removed from a state that held its thread, its job and
\* the job of workspace b
C13_Witness ==
    /\ last_op.kind = "update"
    /\ last_op.update.type = "RemoveWorkspace"
    /\ last_op.update.workspace_id = <<"a">>
    /\ thread_map_key(<<"a">>, <<"t">>) \in DOMAIN last_op.before.threads
    /\ <<"p">> \in DOMAIN last_op.before.jobs
    /\ DOMAIN sup.jobs = {<<"q">>}
    /\ sup.threads = <<>>

-----------------------------------------------------------------------------
(* Specification SpecTurns: the sessions of two workspaces report the      *)
(* turns and items of their thread t to a loop that tracks no job.  The    *)
(* operations applied so far are logged in last_op.log.                    *)

\* number of session events in one behaviour
MaxTurnOps == 4

TurnWorkspaces == { <<"a">>, <<"b">> }
TurnTimes == {0, 1}

TurnMessages ==
    { Message("turn/started", None, Some(<<"t">>), Some(<<"u">>), None, None, FALSE),
      Message("turn/started", None, Some(<<"t">>), Some(<<"v">>), None, None, FALSE),
      Message("turn/completed", None, Some(<<"t">>), Some(<<"u">>), None, None, FALSE),
      Message("turn/completed", None, Some(<<"t">>), Some(<<"v">>), None, None, FALSE),
      Message("item/started", None, Some(<<"t">>), None, Some(<<"i">>), None, FALSE),
      Message("item/completed", None, Some(<<"t">>), None, Some(<<"i">>), None, FALSE) }

InitTurns ==
    /\ idempotency = <<>>
    /\ calls = <<>>
    /\ backend = "ok"
    /\ history = <<>>
    /\ nbatch = 0
    /\ last_batch = [actions |-> <<>>, results |-> <<>>]
    /\ sup \in {new(config) : config \in ReducerConfigs}
    /\ last_op = [kind |-> "none", log |-> <<>>]
    /\ nops = 0
    /\ tasks = NoTasks
    /\ executor_lock = None
    /\ loop_lock = None
    /\ app_locks = NoAppLocks

TurnSessionEvent ==
    \E workspace_id \in TurnWorkspaces, message \in TurnMessages,
       received_at_ms \in TurnTimes :
        /\ nops < MaxTurnOps
        /\ \E out \in {apply_app_server_event([sup EXCEPT !.pushed = <<>>], workspace_id,
                                              message, received_at_ms)} :
           sup' = out
        /\ last_op' = [kind |-> "event", workspace_id |-> workspace_id, message |-> message,
                       received_at_ms |-> received_at_ms,
                       log |-> Append(last_op.log,
                                      [workspace_id |-> workspace_id, message |-> message,
                                       received_at_ms |-> received_at_ms])]
        /\ nops' = nops + 1
        /\ UNCHANGED <<execVars, serviceVars>>

NextTurns == TurnSessionEvent

SpecTurns == InitTurns /\ [][NextTurns]_vars

IsItemEvent(entry) == entry.message.method \in {"item/started", "item/completed"}

\* the log ends with turn/completed(T, U) of workspace W, log[i] is
\* turn/started(T, U) of W, and only item events on T of W happened in between
Lifecycle(log, i) ==
    LET done == log[Len(log)] IN
    /\ i < Len(log)
    /\ done.message.method = "turn/completed"
    /\ log[i].message.method = "turn/started"
    /\ log[i].workspace_id = done.workspace_id
    /\ log[i].message.thread_id = done.message.thread_id
    /\ log[i].message.turn_id = done.message.turn_id
    /\ \A k \in (i + 1)..(Len(log) - 1) :
            /\ IsItemEvent(log[k])
            /\ log[k].workspace_id = done.workspace_id
            /\ log[k].message.thread_id = done.message.thread_id

TurnKey(entry) ==
    Colon(entry.workspace_id, Colon(Unwrap(entry.message.thread_id),
                                    Unwrap(entry.message.turn_id)))

TurnActivityId(label, entry) ==
    <<label>> \o Colon(TurnKey(entry), NumStr(entry.received_at_ms))

Position(entries, id) ==
    IF HasId(entries, id) THEN CHOOSE i \in 1..Len(entries) : entries[i].id = id ELSE 0

\* the thread of a finished turn, and the Completed signals of the turns
\* that were completed
ThreadAndSignal(s, log) ==
    /\ \A i \in 1..Len(log) :
        Lifecycle(log, i) =>
            LET done == log[Len(log)]
                key == thread_map_key(done.workspace_id, Unwrap(done.message.thread_id))
            IN
            /\ key \in DOMAIN s.threads
            /\ s.threads[key].status = "Completed"
            /\ s.threads[key].active_turn_id = None
            /\ s.threads[key].last_activity_at_ms = Some(done.received_at_ms)
    /\ \A i \in 1..Len(log) :
        log[i].message.method = "turn/completed" =>
            Cardinality({ k \in 1..Len(s.signals) :
                            /\ s.signals[k].kind = "Completed"
                            /\ s.signals[k].workspace_id = Some(log[i].workspace_id)
                            /\ s.signals[k].thread_id = log[i].message.thread_id
                            /\ s.signals[k].id = <<"turn:">> \o TurnKey(log[i])
                                                    \o <<":completed">> }) = 1

\* the feed holds the turn_started entry of every finished turn, older than
\* (behind) its turn_completed entry
StartedIsOlder(s, log) ==
    \A i \in 1..Len(log) :
        Lifecycle(log, i) =>
            /\ Position(s.activity_feed, TurnActivityId("turn_completed:", log[Len(log)])) > 0
            /\ Position(s.activity_feed, TurnActivityId("turn_started:", log[i]))
                > Position(s.activity_feed, TurnActivityId("turn_completed:", log[Len(log)]))

\* the same, for the turns whose turn_started entry the cap of the feed has
\* not dropped: it is kept when at most limit - 2 events came in between
StartedIsOlderIfKept(s, log) ==
    \A i \in 1..Len(log) :
        Lifecycle(log, i) =>
            LET started == Position(s.activity_feed, TurnActivityId("turn_started:", log[i]))
                completed == Position(s.activity_feed,
                                      TurnActivityId("turn_completed:", log[Len(log)]))
            IN
            /\ completed = 1
            /\ started # 0 => started > completed
            /\ Len(log) - i - 1 <= FeedLimit(s) - 2 => started # 0

\* C14 as stated: after turn/started(T, U) followed by turn/completed(T, U)
\* the thread is Completed with no active turn and the time of the
\* completion, there is exactly one Completed signal of the turn however
\* often it was completed, and the feed holds turn_started older than
\* turn_completed
C14_Original == ThreadAndSignal(sup, last_op.log) /\ StartedIsOlder(sup, last_op.log)

\* C14: the same, where the feed holds the turn_started entry older than the
\* turn_completed entry unless the cap of the feed has dropped it
C14_TurnLifecycle == ThreadAndSignal(sup, last_op.log) /\ StartedIsOlderIfKept(sup, last_op.log)

\* a turn was started, had an item and was completed twice; its turn_started
\* entry is still in the feed
C14_Witness ==
    /\ Len(last_op.log) = 4
    /\ Lifecycle(SubSeq(last_op.log, 1, 3), 1)
    /\ last_op.log[4] = last_op.log[3]
    /\ last_op.log[3].received_at_ms # last_op.log[1].received_at_ms
    /\ Position(sup.activity_feed, TurnActivityId("turn_started:", last_op.log[1])) = 3

-----------------------------------------------------------------------------
(* mark_reply_delivered, in specification SpecJobs. *)

\* the SupervisorState of a loop: the loop without the log of the pushes of
\* the current operation
StateOf(s) == [s EXCEPT !.pushed = <<>>]

\* C15: mark_reply_delivered succeeds exactly when the job exists, is
\* WaitingForUser and waits on this request id; then the job is Running with
\* waiting_request_id and waiting_question_ids cleared and the open question
\* `{workspace_id}:{request_id}` has resolved_at_ms set; otherwise it returns
\* an error and the state is unchanged
C15_MarkReplyDelivered ==
    [][last_op'.kind = "reply_delivered" =>
        LET job_id == last_op'.job_id
            request_id == last_op'.request_id
            accepted == /\ job_id \in DOMAIN sup.jobs
                        /\ sup.jobs[job_id].status = "WaitingForUser"
                        /\ sup.jobs[job_id].waiting_request_id = Some(request_id)
        IN
        /\ last_op'.ok <=> accepted
        /\ last_op'.ok =>
            LET question_id == Colon(sup.jobs[job_id].workspace_id, request_id) IN
            /\ sup'.jobs[job_id].status = "Running"
            /\ sup'.jobs[job_id].waiting_request_id = None
            /\ sup'.jobs[job_id].waiting_question_ids = <<>>
            /\ question_id \in DOMAIN sup'.open_questions
            /\ sup'.open_questions[question_id].resolved_at_ms
                = Some(last_op'.delivered_at_ms)
        /\ ~last_op'.ok => StateOf(sup') = StateOf(sup)]_vars

\* a reply was delivered to job p, which waited on request 7
C15_Witness ==
    /\ last_op.kind = "reply_delivered"
    /\ last_op.ok
    /\ last_op.job_id = <<"p">>
    /\ last_op.request_id = <<"7">>
    /\ sup.jobs[<<"p">>].status = "Running"
    /\ IsSome(sup.open_questions[<<"a", ":", "7">>].resolved_at_ms)

-----------------------------------------------------------------------------
(* chat.rs: the chat commands.  A command is a sequence of tokens; a space *)
(* is the token " ", a double quote the token "\"", a comma the token ","; *)
(* `/` and `@` are tokens of their own, every other token stands for a run *)
(* of characters without spaces.  The backquote of a message is written    *)
(* as an apostrophe.                                                       *)

\* str::starts_with
StartsWith(s, prefix) == Len(s) >= Len(prefix) /\ SubSeq(s, 1, Len(prefix)) = prefix

\* str::contains
Contains(s, part) ==
    \E i \in 0..(Len(s) - Len(part)) : SubSeq(s, i + 1, i + Len(part)) = part

\* str::to_lowercase, on the tokens of the model that have capitals
Lower(s) ==
    [i \in 1..Len(s) |->
        CASE s[i] = "Help" -> "help"
          [] s[i] = "A" -> "a"
          [] s[i] = "Please" -> "please"
          [] s[i] = "Main" -> "main"
          [] s[i] = "Beta" -> "beta"
          [] OTHER -> s[i]]

\* shell_words::split: words are separated by spaces outside quotes
RECURSIVE shell_split(_, _, _, _)
shell_split(rest, words, word, quoted) ==
    IF rest = <<>>
    THEN IF quoted THEN Err(<<"missing closing quote">>)
         ELSE Ok(IF IsSome(word) THEN Append(words, Unwrap(word)) ELSE words)
    ELSE IF Head(rest) = "\""
    THEN shell_split(Tail(rest), words, Some(OrEmpty(word)), ~quoted)
    ELSE IF IsSpace(Head(rest)) /\ ~quoted
    THEN shell_split(Tail(rest),
                     IF IsSome(word) THEN Append(words, Unwrap(word)) ELSE words,
                     None, FALSE)
    ELSE shell_split(Tail(rest), words, Some(Append(OrEmpty(word), Head(rest))), quoted)

\* str::split(',')
RECURSIVE split_commas(_, _, _)
split_commas(rest, parts, part) ==
    IF rest = <<>> THEN Append(parts, part)
    ELSE IF Head(rest) = "," THEN split_commas(Tail(rest), Append(parts, part), <<>>)
    ELSE split_commas(Tail(rest), parts, Append(part, Head(rest)))

\* the value of --ws: the trimmed, non-empty entries
workspace_list(value) ==
    LET parts == split_commas(value, <<>>, <<>>) IN
    SelectSeq([i \in 1..Len(parts) |-> Trim(parts[i])], LAMBDA entry : entry # <<>>)

parse_access_mode(value) ==
    IF value \in { <<"read-only">>, <<"current">>, <<"full-access">> } THEN Ok(value)
    ELSE Err(<<"'--access-mode' must be one of 'read-only', 'current', or 'full-access'">>)

\* the flags of /dispatch whose value is trimmed and must not be empty
TrimmedFlags ==
    [flag \in { <<"--prompt">>, <<"--thread">>, <<"--dedupe">>, <<"--model">>, <<"--effort">> }
        |-> CASE flag = <<"--prompt">> -> "prompt"
              [] flag = <<"--thread">> -> "thread_id"
              [] flag = <<"--dedupe">> -> "dedupe_key"
              [] flag = <<"--model">> -> "model"
              [] flag = <<"--effort">> -> "effort"]

\* the loop of parse_dispatch_command, from token `index` on
RECURSIVE parse_dispatch_from(_, _, _)
parse_dispatch_from(tokens, index, req) ==
    IF index > Len(tokens)
    THEN IF ~IsSome(req.workspace_ids) THEN Err(<<"'--ws' is required">>)
         ELSE IF ~IsSome(req.prompt) THEN Err(<<"'--prompt' is required">>)
         ELSE Ok([workspace_ids |-> Unwrap(req.workspace_ids),
                  prompt |-> Unwrap(req.prompt),
                  thread_id |-> req.thread_id, dedupe_key |-> req.dedupe_key,
                  model |-> req.model, effort |-> req.effort,
                  access_mode |-> req.access_mode,
                  route_kind |-> None, route_reason |-> None, route_fallback |-> None])
    ELSE IF index + 1 > Len(tokens)
    THEN Err(<<"missing value for '">> \o tokens[index] \o <<"'">>)
    ELSE LET flag == tokens[index]
             value == tokens[index + 1]
         IN
         IF flag = <<"--ws">>
         THEN IF workspace_list(value) = <<>>
              THEN Err(<<"'--ws' requires at least one workspace id">>)
              ELSE parse_dispatch_from(tokens, index + 2,
                        [req EXCEPT !.workspace_ids = Some(workspace_list(value))])
         ELSE IF flag \in DOMAIN TrimmedFlags
         THEN IF Trim(value) = <<>>
              THEN Err(<<"'">> \o flag \o <<"' cannot be empty">>)
              ELSE parse_dispatch_from(tokens, index + 2,
                        [req EXCEPT ![TrimmedFlags[flag]] = Some(Trim(value))])
         ELSE IF flag \in { <<"--access-mode">>, <<"--access">> }
         THEN IF Trim(value) = <<>>
              THEN Err(<<"'--access-mode' cannot be empty">>)
              ELSE IF ~parse_access_mode(Trim(value)).ok
              THEN Err(parse_access_mode(Trim(value)).error)
              ELSE parse_dispatch_from(tokens, index + 2,
                        [req EXCEPT !.access_mode = Some(Trim(value))])
         ELSE Err(<<"unknown '/dispatch' flag '">> \o flag \o <<"'">>)

parse_dispatch_command(tokens) ==
    parse_dispatch_from(tokens, 1,
        [workspace_ids |-> None, prompt |-> None, thread_id |-> None, dedupe_key |-> None,
         model |-> None, effort |-> None, access_mode |-> None])

parse_ack_command(tokens) ==
    IF Len(tokens) # 1 THEN Err(<<"usage: /ack <signal_id>">>)
    ELSE IF Trim(tokens[1]) = <<>> THEN Err(<<"usage: /ack <signal_id>">>)
    ELSE Ok(Trim(tokens[1]))

\* parse_status_command: (workspace_id, thread_id)
parse_status_command(tokens) ==
    LET usage == Err(<<"usage: /status [workspace_id] [thread_id]">>)
        found(workspace_id, thread_id) ==
            Ok([workspace_id |-> workspace_id, thread_id |-> thread_id])
    IN
    CASE Len(tokens) = 0 -> found(None, None)
      [] Len(tokens) = 1 ->
            IF Trim(tokens[1]) = <<>> THEN found(None, None)
            ELSE IF Trim(tokens[1]) = <<"--thread">> THEN usage
            ELSE found(Some(Trim(tokens[1])), None)
      [] Len(tokens) = 2 ->
            IF Trim(tokens[1]) = <<"--thread">>
            THEN IF Trim(tokens[2]) = <<>> THEN usage ELSE found(None, Some(Trim(tokens[2])))
            ELSE IF \/ Trim(tokens[1]) = <<>>
                    \/ Trim(tokens[2]) = <<>>
                    \/ Trim(tokens[2]) = <<"--thread">>
            THEN usage
            ELSE found(Some(Trim(tokens[1])), Some(Trim(tokens[2])))
      [] Len(tokens) = 3 ->
            IF \/ Trim(tokens[1]) = <<>>
               \/ Trim(tokens[3]) = <<>>
               \/ Trim(tokens[2]) # <<"--thread">>
            THEN usage
            ELSE found(Some(Trim(tokens[1])), Some(Trim(tokens[3])))
      [] OTHER -> usage

\* parse_feed_command: needs_input_only
parse_feed_command(tokens) ==
    IF Len(tokens) = 0 THEN Ok(FALSE)
    ELSE IF Len(tokens) > 1 THEN Err(<<"usage: /feed [needs_input]">>)
    ELSE IF Trim(tokens[1]) = <<"needs_input">> THEN Ok(TRUE)
    ELSE IF Trim(tokens[1]) = <<>> THEN Ok(FALSE)
    ELSE Err(<<"usage: /feed [needs_input]">>)

ensure_no_extra_args(command, tokens) ==
    IF tokens = <<>> THEN Ok(<<>>) ELSE Err(<<"usage: ">> \o command)

\* parse_supervisor_chat_command: a SupervisorChatCommand, as a record with
\* the variant in `kind`
parse_supervisor_chat_command(input) ==
    LET raw == Trim(input) IN
    IF raw = <<>> THEN Err(<<"command is required">>)
    ELSE IF Head(raw) # "/"
    THEN Err(<<"commands must start with '/' (run '/help' for usage)">>)
    ELSE
    Bind(shell_split(raw, <<>>, None, FALSE), LAMBDA split :
    IF ~split.ok THEN Err(<<"invalid command syntax: ">> \o split.error)
    ELSE IF split.value = <<>> THEN Err(<<"command is required">>)
    ELSE
    LET name == split.value[1]
        args == Tail(split.value)
    IN
    CASE name = <<"/", "dispatch">> ->
            Bind(parse_dispatch_command(args), LAMBDA r :
                IF r.ok THEN Ok([kind |-> "Dispatch", request |-> r.value]) ELSE r)
      [] name = <<"/", "ack">> ->
            Bind(parse_ack_command(args), LAMBDA r :
                IF r.ok THEN Ok([kind |-> "Ack", signal_id |-> r.value]) ELSE r)
      [] name = <<"/", "status">> ->
            Bind(parse_status_command(args), LAMBDA r :
                IF r.ok THEN Ok([kind |-> "Status", workspace_id |-> r.value.workspace_id,
                                 thread_id |-> r.value.thread_id])
                ELSE r)
      [] name = <<"/", "feed">> ->
            Bind(parse_feed_command(args), LAMBDA r :
                IF r.ok THEN Ok([kind |-> "Feed", needs_input_only |-> r.value]) ELSE r)
      [] name = <<"/", "help">> ->
            Bind(ensure_no_extra_args(<<"/", "help">>, args), LAMBDA r :
                IF r.ok THEN Ok([kind |-> "Help"]) ELSE r)
      [] OTHER -> Err(<<"unknown command '">> \o name \o <<"' (run '/help' for usage)">>))

\* build_dispatch_contract: every action carries the keys model, effort,
\* access_mode, route_kind, route_reason and route_fallback, which
\* SupervisorDispatchTurnAction does not declare
build_dispatch_contract(request, action_id_prefix) ==
    [version |-> SUPERVISOR_ACTION_CONTRACT_VERSION,
     actions |->
        [i \in 1..Len(request.workspace_ids) |->
            [type |-> "dispatch_turn",
             action_id |-> action_id_prefix \o <<"-">> \o NumStr(i),
             workspace_id |-> request.workspace_ids[i],
             prompt |-> request.prompt,
             thread_id |-> request.thread_id,
             dedupe_key |-> request.dedupe_key,
             unknown_field |-> TRUE]],
     unknown_field |-> FALSE]

\* the first line of format_status_message
format_status_message(state, workspace_id) ==
    IF IsSome(workspace_id) /\ Trim(Unwrap(workspace_id)) # <<>>
    THEN IF Trim(Unwrap(workspace_id)) \in DOMAIN state.workspaces
         THEN Ok(<<"Status for workspace '">> \o Trim(Unwrap(workspace_id)) \o <<"':">>)
         ELSE Err(<<"workspace '">> \o Trim(Unwrap(workspace_id)) \o <<"' not found">>)
    ELSE Ok(<<"Global supervisor status:">>)

\* the first line of format_feed_message
format_feed_message(items, total, needs_input_only) ==
    <<"Activity feed">> \o (IF needs_input_only THEN <<" (needs input)">> ELSE <<>>)
        \o <<": showing ">> \o NumStr(Len(items)) \o <<" of ">> \o NumStr(total)

format_ack_message(signal_id) == <<"Signal '">> \o signal_id \o <<"' acknowledged.">>

\* the first line of format_dispatch_message
format_dispatch_message(request, results) ==
    <<"Sent task to ">> \o NumStr(Len(request.workspace_ids)) \o <<" workspace(s): ">>
        \o NumStr(Cardinality({i \in 1..Len(results) : results[i].status = "Dispatched"}))
        \o <<" succeeded">>


-----------------------------------------------------------------------------
(* routing.rs: the route of a free-form chat message.  The workspace       *)
(* registry of the model is empty, so a workspace has no name, path or     *)
(* branch of the registry and only its id can be mentioned in a prompt.    *)

\* collect_route_workspace_metadata with an empty registry: one entry per
\* workspace of the snapshot, in the order of the ids; `connected` is the
\* set of workspaces that have a session
RECURSIVE sorted_ids(_)
sorted_ids(ids) ==
    IF ids = {} THEN <<>>
    ELSE LET first == CHOOSE id \in ids : \A other \in ids \ {id} : StrLess(id, other) IN
         <<first>> \o sorted_ids(ids \ {first})

collect_route_workspace_metadata(s, connected) ==
    LET ids == sorted_ids(DOMAIN s.workspaces) IN
    [i \in 1..Len(ids) |->
        [workspace_id |-> ids[i],
         name |-> s.workspaces[ids[i]].name,
         path |-> <<>>,
         branch |-> None,
         connected |-> s.workspaces[ids[i]].connected \/ ids[i] \in connected,
         available |-> ids[i] \in connected,
         health |-> s.workspaces[ids[i]].health,
         capabilities |-> IF ids[i] \in connected THEN 4 ELSE 0]]

\* trim_matches(whitespace or ASCII punctuation)
RECURSIVE trim_punctuation(_)
trim_punctuation(s) ==
    LET skip(c) == IsSpace(c) \/ c \in {"?", "!", "."} IN
    IF s = <<>> THEN s
    ELSE IF skip(Head(s)) THEN trim_punctuation(Tail(s))
    ELSE IF skip(s[Len(s)]) THEN trim_punctuation(SubSeq(s, 1, Len(s) - 1))
    ELSE s

\* detect_local_tool: Option<SupervisorLocalTool>
detect_local_tool(prompt_lower) ==
    LET trimmed == trim_punctuation(prompt_lower) IN
    IF \/ StartsWith(trimmed, <<"help">>)
       \/ trimmed = <<"what", " ", "can", " ", "you", " ", "do">>
       \/ trimmed = <<"what", " ", "are", " ", "the", " ", "available", " ", "commands">>
    THEN Some("Help")
    ELSE IF \/ StartsWith(trimmed, <<"status">>)
            \/ StartsWith(trimmed, <<"show", " ", "status">>)
            \/ StartsWith(trimmed, <<"supervisor", " ", "status">>)
            \/ trimmed = <<"global", " ", "status">>
    THEN Some("Status")
    ELSE IF \/ StartsWith(trimmed, <<"feed">>)
            \/ StartsWith(trimmed, <<"activity", " ", "feed">>)
            \/ StartsWith(trimmed, <<"show", " ", "feed">>)
            \/ trimmed = <<"activity">>
    THEN Some("Feed")
    ELSE None

\* the tokens of the model that stand for fewer than three characters
ShortTokens == { "a", "b", "c", "x" }

\* str::split_whitespace
RECURSIVE split_whitespace(_, _, _)
split_whitespace(rest, parts, part) ==
    IF rest = <<>> THEN IF part = <<>> THEN parts ELSE Append(parts, part)
    ELSE Bind(Tail(rest), LAMBDA tail :
         IF IsSpace(Head(rest))
         THEN Bind(IF part = <<>> THEN parts ELSE Append(parts, part), LAMBDA split :
                   split_whitespace(tail, split, <<>>))
         ELSE Bind(Append(part, Head(rest)), LAMBDA longer :
                   split_whitespace(tail, parts, longer)))

\* Path::file_name: what follows the last "/"
RECURSIVE file_name(_)
file_name(path) ==
    IF path = <<>> THEN <<>>
    ELSE IF path[Len(path)] = "/" THEN <<>>
    ELSE Bind(SubSeq(path, 1, Len(path) - 1), LAMBDA front :
              file_name(front) \o <<path[Len(path)]>>)

prompt_mentions_workspace(prompt_lower, workspace) ==
    Bind(workspace, LAMBDA w :
    \/ Contains(prompt_lower, Lower(w.workspace_id))
    \/ Bind(split_whitespace(Lower(Trim(w.name)), <<>>, <<>>), LAMBDA tokens :
       \E i \in 1..Len(tokens) :
            /\ ~(Len(tokens[i]) = 1 /\ tokens[i][1] \in ShortTokens)
            /\ Contains(prompt_lower, tokens[i]))
    \/ Bind(file_name(w.path), LAMBDA base :
            base # <<>> /\ Contains(prompt_lower, Lower(base)))
    \/ /\ IsSome(w.branch)
       /\ Bind(Trim(Unwrap(w.branch)), LAMBDA branch :
               branch # <<>> /\ Contains(prompt_lower, Lower(branch))))

workspace_decision(workspace_id, reason, model, fallback_message) ==
    [kind |-> "WorkspaceDelegate", reason |-> reason, workspace_id |-> Some(workspace_id),
     local_tool |-> None, model |-> model, fallback_message |-> fallback_message,
     options |-> <<>>]

clarification_decision(reason, options, fallback_message) ==
    [kind |-> "Clarification", reason |-> reason, workspace_id |-> None,
     local_tool |-> None, model |-> None, fallback_message |-> fallback_message,
     options |-> options]

route_score(prompt_lower, workspace) ==
    (CASE workspace.health = "Healthy" -> 30
       [] workspace.health = "Stale" -> 18
       [] OTHER -> 0 - 100)
    + (IF workspace.available THEN 15 ELSE 0 - 100)
    + (IF workspace.connected THEN 10 ELSE 0 - 100)
    + Min(workspace.capabilities, 6)
    + (IF prompt_mentions_workspace(prompt_lower, workspace) THEN 70 ELSE 0)

\* the candidates by falling score, then by id
RECURSIVE sort_scored(_, _)
sort_scored(prompt_lower, available) ==
    IF available = <<>> THEN <<>>
    ELSE LET before(l, r) ==
                \/ route_score(prompt_lower, l) > route_score(prompt_lower, r)
                \/ /\ route_score(prompt_lower, l) = route_score(prompt_lower, r)
                   /\ StrLess(l.workspace_id, r.workspace_id)
             first == CHOOSE i \in 1..Len(available) :
                        \A j \in (1..Len(available)) \ {i} : before(available[i], available[j])
         IN <<available[first]>>
                \o sort_scored(prompt_lower,
                               SubSeq(available, 1, first - 1)
                                   \o SubSeq(available, first + 1, Len(available)))

\* the best candidate is taken whatever the others score
select_best_workspace(prompt_lower, available, fallback_message) ==
    LET scored == sort_scored(prompt_lower, available) IN
    IF scored = <<>>
    THEN clarification_decision("no candidates", <<>>, fallback_message)
    ELSE workspace_decision(scored[1].workspace_id, "ranked", None, fallback_message)

select_standard_workspace_route(prompt_lower, available, fallback_message) ==
    Bind(sort_scored(prompt_lower, available), LAMBDA scored :
    IF scored = <<>>
    THEN clarification_decision("no candidates", <<>>, fallback_message)
    ELSE
    LET best == scored[1]
        is_ambiguous ==
            /\ Len(scored) > 1
            /\ route_score(prompt_lower, scored[2]) = route_score(prompt_lower, best)
            /\ ~prompt_mentions_workspace(prompt_lower, best)
            /\ ~prompt_mentions_workspace(prompt_lower, scored[2])
    IN
    IF is_ambiguous \/ route_score(prompt_lower, best) < 25
    THEN clarification_decision("ambiguous",
            [i \in 1..Min(Len(scored), 4) |-> scored[i].workspace_id], fallback_message)
    ELSE workspace_decision(best.workspace_id,
            IF prompt_mentions_workspace(prompt_lower, best) THEN "explicit" ELSE "ranked",
            None, fallback_message))

\* AppSettings: dedicated workspace mode off, and on for workspace b
DefaultSettings ==
    [supervisor_dedicated_workspace_enabled |-> FALSE,
     supervisor_dedicated_workspace_id |-> None,
     supervisor_fast_model |-> <<>>]

\* sort_candidates: a stable sort by workspace id
RECURSIVE sort_candidates(_)
sort_candidates(workspaces) ==
    IF workspaces = <<>> THEN <<>>
    ELSE LET first == CHOOSE i \in 1..Len(workspaces) :
                        /\ \A j \in 1..(i - 1) :
                                StrLess(workspaces[j].workspace_id, workspaces[i].workspace_id)
                                    = FALSE
                                /\ workspaces[j].workspace_id # workspaces[i].workspace_id
                        /\ \A j \in (i + 1)..Len(workspaces) :
                                ~StrLess(workspaces[j].workspace_id, workspaces[i].workspace_id)
         IN Bind(SubSeq(workspaces, 1, first - 1)
                    \o SubSeq(workspaces, first + 1, Len(workspaces)), LAMBDA rest :
                 <<workspaces[first]>> \o sort_candidates(rest))

\* every candidate is taken to be available
all_candidates(workspaces) == sort_candidates(workspaces)

\* the candidates a prompt can be delegated to
available_candidates(workspaces) ==
    SelectSeq(sort_candidates(workspaces), LAMBDA w :
        w.connected /\ w.available /\ w.health # "Disconnected")

select_supervisor_route(prompt, workspaces, settings) ==
    Bind(Lower(Trim(prompt)), LAMBDA prompt_lower :
    Bind(workspaces, LAMBDA candidates :
    Bind(available_candidates(candidates), LAMBDA available :
    LET dedicated_model == normalize_optional(Some(settings.supervisor_fast_model))
        dedicated_id == normalize_optional(settings.supervisor_dedicated_workspace_id)
    IN
    IF IsSome(detect_local_tool(prompt_lower))
    THEN [kind |-> "LocalTool", reason |-> "local tool", workspace_id |-> None,
          local_tool |-> detect_local_tool(prompt_lower), model |-> None,
          fallback_message |-> None, options |-> <<>>]
    ELSE IF available = <<>>
    THEN clarification_decision("no connected workspace", <<>>, None)
    ELSE IF settings.supervisor_dedicated_workspace_enabled
    THEN IF IsSome(dedicated_id)
         THEN IF \E i \in 1..Len(available) :
                    available[i].workspace_id = Unwrap(dedicated_id)
              THEN workspace_decision(Unwrap(dedicated_id), "dedicated", dedicated_model, None)
              ELSE select_standard_workspace_route(prompt_lower, available,
                        Some(<<"Dedicated workspace '">> \o Unwrap(dedicated_id)
                             \o <<"' is unavailable">>))
         ELSE workspace_decision(available[1].workspace_id, "dedicated auto",
                                 dedicated_model, None)
    ELSE select_standard_workspace_route(prompt_lower, available, None))))

-----------------------------------------------------------------------------
(* service.rs: supervisor_chat_send_core.  The calls of one chat send run  *)
(* on a record x = [loop, store, calls, entries, nbatch, sent, routed,     *)
(* tools, dispatches]: the loop, the store of the executor, the backend    *)
(* calls, the actions handed to dispatch_action, the number of batches,    *)
(* and the                                                                 *)
(* send_response calls, route decisions, local tools and                   *)
(* supervisor_dispatch_core calls made by this send.  `env` holds what the *)
(* send finds outside the supervisor: the workspaces that have a session,  *)
(* whether their send_response succeeds and the error it returns          *)
(* otherwise, the backend mode and the app settings.                       *)

\* Uuid::new_v4: the value drawn from a loop, and the loop after the draw
next_uuid(x) == x.loop.uuids + 1
drawn(x) == [x EXCEPT !.loop.uuids = @ + 1]

\* a Result with the record the calls run on
Done(ok, text, x) == [ok |-> ok, text |-> text, x |-> x]

\* the jobs `waiting_jobs` sorts, newest request first
RECURSIVE sort_waiting(_, _)
sort_waiting(s, ids) ==
    IF ids = {} THEN <<>>
    ELSE LET first == CHOOSE id \in ids : \A other \in ids \ {id} :
                        \/ s.jobs[id].requested_at_ms > s.jobs[other].requested_at_ms
                        \/ /\ s.jobs[id].requested_at_ms = s.jobs[other].requested_at_ms
                           /\ StrLess(id, other)
         IN <<s.jobs[first]>> \o sort_waiting(s, ids \ {first})

\* no job is waiting
no_waiting_jobs(s) == <<>>

\* SupervisorLoop::waiting_jobs
waiting_jobs(s) ==
    sort_waiting(s, { id \in DOMAIN s.jobs :
                        /\ s.jobs[id].status = "WaitingForUser"
                        /\ IsSome(s.jobs[id].waiting_request_id)
                        /\ Trim(s.jobs[id].workspace_id) # <<>> })

\* SupervisorLoop::record_route_decision
record_route_decision(s, route_id, created_at_ms) ==
    push_activity(s, <<"route_decision:">> \o Colon(route_id, NumStr(created_at_ms)),
                  "route_decision", None, None, FALSE, created_at_ms)

\* supervisor_feed_core: [items, total]
supervisor_feed_core(s, limit, needs_input_only) ==
    LET items == IF needs_input_only
                 THEN SelectSeq(s.activity_feed, LAMBDA entry : entry.needs_input)
                 ELSE s.activity_feed
    IN [items |-> Truncate(items, Min(limit, 1000)), total |-> Len(items)]

\* supervisor_ack_signal_core: [ok, error, loop]
supervisor_ack_signal_core(s, signal_id, acknowledged_at_ms) ==
    IF Trim(signal_id) = <<>>
    THEN [ok |-> FALSE, error |-> <<"signal_id is required">>, loop |-> s]
    ELSE IF ~\E i \in 1..Len(s.signals) : s.signals[i].id = Trim(signal_id)
    THEN [ok |-> FALSE, error |-> <<"signal '">> \o Trim(signal_id) \o <<"' not found">>,
          loop |-> s]
    ELSE [ok |-> TRUE, loop |-> AckSignal(s, Trim(signal_id), acknowledged_at_ms)]

\* parse_targeted_subtask_reply: Option<(subtask_id, reply_text)>
parse_targeted_subtask_reply(input) ==
    LET trimmed == Trim(input) IN
    IF trimmed = <<>> \/ Head(trimmed) # "@" THEN None
    ELSE LET remainder == Trim(Tail(trimmed)) IN
         IF ~\E i \in 1..Len(remainder) : IsSpace(remainder[i]) THEN None
         ELSE LET cut == CHOOSE i \in 1..Len(remainder) :
                            /\ IsSpace(remainder[i])
                            /\ \A j \in 1..(i - 1) : ~IsSpace(remainder[j])
                  subtask_id == Trim(SubSeq(remainder, 1, cut - 1))
                  reply_text == Trim(SubSeq(remainder, cut + 1, Len(remainder)))
              IN IF subtask_id = <<>> \/ reply_text = <<>> THEN None
                 ELSE Some([subtask_id |-> subtask_id, reply_text |-> reply_text])

deliver_reply_to_waiting_subtask(env, x, job, reply_text, delivered_at_ms) ==
    IF ~IsSome(job.waiting_request_id)
    THEN Done(FALSE, <<"subtask '">> \o job.id \o <<"' no longer has a waiting request">>, x)
    ELSE IF Trim(reply_text) = <<>> THEN Done(FALSE, <<"reply text is required">>, x)
    ELSE IF job.workspace_id \notin env.connected
    THEN Done(FALSE, <<"workspace '">> \o job.workspace_id \o <<"' is not connected">>, x)
    ELSE
    LET request_id == Unwrap(job.waiting_request_id)
        x1 == [x EXCEPT !.sent = Append(@, [workspace_id |-> job.workspace_id,
                                            request_id |-> request_id,
                                            answers |-> Trim(reply_text)])]
    IN
    IF env.send_ok
    THEN Bind(mark_reply_delivered(x1.loop, job.id, request_id, delivered_at_ms), LAMBDA r :
            IF ~r.ok
            THEN Done(FALSE, <<"subtask '">> \o job.id \o <<"' cannot be answered">>, x1)
            ELSE Done(TRUE, <<"Reply routed to subtask '">> \o job.id
                            \o <<"' in workspace '">> \o job.workspace_id \o <<"'.">>,
                      [x1 EXCEPT !.loop = r.loop]))
    ELSE Done(FALSE, <<"failed to deliver reply to subtask '">> \o job.id \o <<"': ">>
                        \o env.send_error,
              [x1 EXCEPT !.loop = mark_reply_delivery_failed(x1.loop, job.id, request_id,
                                                             delivered_at_ms)])

\* the ids of the waiting jobs, joined by ", "
RECURSIVE available_ids(_)
available_ids(jobs) ==
    IF jobs = <<>> THEN <<>>
    ELSE jobs[1].id \o (IF Len(jobs) > 1 THEN <<", ">> ELSE <<>>) \o available_ids(Tail(jobs))

\* one line per waiting job, joined by "\n"
RECURSIVE hints(_)
hints(jobs) ==
    IF jobs = <<>> THEN <<>>
    ELSE <<"- ">> \o jobs[1].id \o <<" (workspace: ">> \o jobs[1].workspace_id
            \o <<", thread: ">>
            \o (IF IsSome(jobs[1].thread_id) THEN Unwrap(jobs[1].thread_id) ELSE <<"-">>)
            \o <<")">> \o (IF Len(jobs) > 1 THEN <<"\n">> ELSE <<>>) \o hints(Tail(jobs))

\* try_route_reply_to_waiting_subtask: Result<Option<String>>, with `some`
try_route_reply_to_waiting_subtask(env, x, command, received_at_ms) ==
    LET targeted_reply == parse_targeted_subtask_reply(command)
        waiting == waiting_jobs(x.loop)
        answer(text) == [ok |-> TRUE, some |-> TRUE, text |-> text, x |-> x]
        delivered(r) == [ok |-> r.ok, some |-> r.ok, text |-> r.text, x |-> r.x]
    IN
    IF waiting = <<>>
    THEN IF IsSome(targeted_reply)
         THEN IF Unwrap(targeted_reply).subtask_id \in DOMAIN x.loop.jobs
              THEN answer(<<"Subtask '">> \o Unwrap(targeted_reply).subtask_id
                          \o <<"' is no longer waiting for user input.">>)
              ELSE answer(<<"Subtask '">> \o Unwrap(targeted_reply).subtask_id
                          \o <<"' is unknown.">>)
         ELSE [ok |-> TRUE, some |-> FALSE, text |-> <<>>, x |-> x]
    ELSE IF IsSome(targeted_reply)
    THEN IF ~\E i \in 1..Len(waiting) : waiting[i].id = Unwrap(targeted_reply).subtask_id
         THEN answer(<<"Subtask '">> \o Unwrap(targeted_reply).subtask_id
                     \o <<"' is not waiting for input. Waiting subtasks: ">>
                     \o available_ids(waiting))
         ELSE delivered(deliver_reply_to_waiting_subtask(env, x,
                    waiting[CHOOSE i \in 1..Len(waiting) :
                                waiting[i].id = Unwrap(targeted_reply).subtask_id],
                    Unwrap(targeted_reply).reply_text, received_at_ms))
    ELSE IF Len(waiting) > 1
    THEN answer(<<"Multiple child subtasks are waiting for input.",
                  "Reply with an explicit target: '@<subtask_id> your reply'.",
                  "Waiting subtasks:">> \o hints(waiting))
    ELSE delivered(deliver_reply_to_waiting_subtask(env, x, waiting[1], command,
                                                    received_at_ms))

\* execute_parsed_supervisor_chat_command
execute_parsed_supervisor_chat_command(env, x, command, received_at_ms, now_ms) ==
    CASE command.kind = "Help" -> Done(TRUE, format_help_message, x)
      [] command.kind = "Status" ->
            Bind(format_status_message(x.loop, command.workspace_id), LAMBDA r :
                Done(r.ok, IF r.ok THEN r.value ELSE r.error, x))
      [] command.kind = "Feed" ->
            Bind(supervisor_feed_core(x.loop, 20, command.needs_input_only), LAMBDA feed :
                Done(TRUE, format_feed_message(feed.items, feed.total,
                                               command.needs_input_only), x))
      [] command.kind = "Ack" ->
            Bind(supervisor_ack_signal_core(x.loop, command.signal_id, now_ms), LAMBDA r :
                IF r.ok
                THEN Done(TRUE, format_ack_message(command.signal_id),
                          [x EXCEPT !.loop = r.loop])
                ELSE Done(FALSE, r.error, x))
      [] command.kind = "Dispatch" ->
            LET action_id_prefix == <<"chat-dispatch-">> \o NumStr(received_at_ms)
                                        \o <<"-">> \o NumStr(next_uuid(x))
                contract == build_dispatch_contract(command.request, action_id_prefix)
            IN
            Bind(supervisor_dispatch_core(env.backend, x.store, x.calls, drawn(x).loop,
                                          contract, x.nbatch + 1, now_ms), LAMBDA r :
                Done(r.ok,
                     IF r.ok THEN format_dispatch_message(command.request, r.results)
                     ELSE r.error,
                     [x EXCEPT !.loop = r.loop, !.store = r.store, !.calls = r.calls,
                               !.entries = @ \o r.entries, !.nbatch = @ + 1,
                               !.dispatches = @ + 1]))

\* execute_local_tool_route
execute_local_tool_route(x, tool) ==
    LET x1 == [x EXCEPT !.tools = Append(@, tool)] IN
    CASE tool = "Status" ->
            Bind(format_status_message(x.loop, None), LAMBDA r :
                Done(r.ok, IF r.ok THEN r.value ELSE r.error, x1))
      [] tool = "Feed" ->
            Bind(supervisor_feed_core(x.loop, 20, FALSE), LAMBDA feed :
                Done(TRUE, format_feed_message(feed.items, feed.total, FALSE), x1))
      [] tool = "Help" -> Done(TRUE, format_help_message, x1)

format_route_clarification(route) ==
    <<"Need clarification before dispatching.", "Reason: ", route.reason>>

\* build_freeform_dispatch_request and the match of
\* execute_freeform_supervisor_chat on its outcome
route_freeform(env, x, prompt, received_at_ms, now_ms) ==
    Bind(select_supervisor_route(prompt,
            collect_route_workspace_metadata(x.loop, env.connected), env.settings),
         LAMBDA route :
    Bind([drawn(x) EXCEPT
            !.loop = record_route_decision(drawn(x).loop,
                        NumStr(received_at_ms) \o <<"-">> \o NumStr(next_uuid(x)),
                        received_at_ms),
            !.routed = Append(@, route)],
         LAMBDA x1 :
    CASE route.kind = "LocalTool" -> execute_local_tool_route(x1, Unwrap(route.local_tool))
      [] route.kind = "Clarification" -> Done(TRUE, format_route_clarification(route), x1)
      [] route.kind = "WorkspaceDelegate" ->
            IF ~IsSome(normalize_optional(route.workspace_id))
            THEN Done(FALSE, <<"route decision did not include target workspace">>, x1)
            ELSE
            LET workspace_id == Unwrap(normalize_optional(route.workspace_id))
                request ==
                    [workspace_ids |-> <<workspace_id>>, prompt |-> Trim(prompt),
                     thread_id |-> None,
                     dedupe_key |-> Some(<<"freeform:">> \o workspace_id \o <<":">>
                                            \o NumStr(next_uuid(x1))),
                     model |-> route.model, effort |-> None, access_mode |-> None,
                     route_kind |-> Some(<<"workspace_delegate">>),
                     route_reason |-> Some(<<route.reason>>),
                     route_fallback |-> route.fallback_message]
            IN execute_parsed_supervisor_chat_command(env, drawn(x1),
                    [kind |-> "Dispatch", request |-> request], received_at_ms, now_ms)))

execute_freeform_supervisor_chat(env, x, command, received_at_ms, now_ms) ==
    Bind(try_route_reply_to_waiting_subtask(env, x, command, received_at_ms), LAMBDA reply :
    IF ~reply.ok THEN Done(FALSE, reply.text, reply.x)
    ELSE IF reply.some THEN Done(TRUE, reply.text, reply.x)
    ELSE route_freeform(env, reply.x, command, received_at_ms, now_ms))

\* every command is run as a free-form message and an error is passed on
\* as it is
execute_unprefixed(env, x, command, received_at_ms, now_ms) ==
    Bind(execute_freeform_supervisor_chat(env, x, command, received_at_ms, now_ms),
         LAMBDA r : [failed |-> ~r.ok, text |-> r.text, x |-> r.x])

\* execute_supervisor_chat_command: [failed, text, x]; `failed` says that
\* the execution returned an error
execute_supervisor_chat_command(env, x, command, received_at_ms, now_ms) ==
    IF Head(command) = "/"
    THEN Bind(parse_supervisor_chat_command(command), LAMBDA parsed :
         IF ~parsed.ok
         THEN [failed |-> TRUE,
               text |-> <<"Error: ">> \o parsed.error
                            \o <<"\nRun '/help' for command usage.">>,
               x |-> x]
         ELSE Bind(execute_parsed_supervisor_chat_command(env, x, parsed.value,
                                                          received_at_ms, now_ms), LAMBDA r :
              [failed |-> ~r.ok,
               text |-> IF r.ok THEN r.text
                        ELSE <<"Error: ">> \o r.text \o <<"\nRun '/help' for command usage.">>,
               x |-> r.x]))
    ELSE Bind(execute_freeform_supervisor_chat(env, x, command, received_at_ms, now_ms),
              LAMBDA r :
              [failed |-> ~r.ok,
               text |-> IF r.ok THEN r.text
                        ELSE <<"Unable to route chat message: ">> \o r.text,
               x |-> r.x])

\* SupervisorLoop::chat_history
chat_history(s) == s.chat_history

\* supervisor_chat_history_core
supervisor_chat_history_core(s) == chat_history(s)

\* supervisor_chat_send_core: [ok, error] or [ok, failed, text, messages, x]
supervisor_chat_send_core(env, x, command, received_at_ms, now_ms) ==
    LET trimmed == Trim(command) IN
    IF trimmed = <<>> THEN [ok |-> FALSE, error |-> <<"command is required">>, x |-> x]
    ELSE
    Bind(user_message(trimmed, received_at_ms, next_uuid(x)), LAMBDA user :
    Bind(execute_supervisor_chat_command(env, drawn(x), trimmed, received_at_ms, now_ms),
         LAMBDA r :
    Bind(system_message(r.text, received_at_ms, next_uuid(r.x), now_ms), LAMBDA system :
    Bind(append_chat_message(append_chat_message(drawn(r.x).loop, user), system), LAMBDA s :
    [ok |-> TRUE, failed |-> r.failed, text |-> r.text, messages |-> chat_history(s),
     x |-> [r.x EXCEPT !.loop = s]]))))


-----------------------------------------------------------------------------
(* The supervisor chat (SpecChat): chat sends, reads of the history,       *)
(* session events and failed replies, from the loops the tests of          *)
(* service.rs start from and from loops after a dispatch.                  *)

MaxChatOps == 2

\* the error a failing send_response returns
SendError == <<"session closed">>

\* the job the tests of service.rs put into the loop
waiting_job(id, workspace_id, thread_id, request_id) ==
    [id |-> id, workspace_id |-> workspace_id, thread_id |-> Some(thread_id),
     dedupe_key |-> None, status |-> "WaitingForUser", requested_at_ms |-> 1,
     started_at_ms |-> None, completed_at_ms |-> None, error |-> None,
     waiting_request_id |-> Some(request_id), waiting_question_ids |-> <<"question-1">>,
     recent_events |-> <<>>]

\* SupervisorLoop::upsert_job
upsert_job(s, job) == UpsertJob(s, job)

\* [loop, store, calls, entries, nbatch]: a fresh loop; the loops of the tests
\* with one and with two waiting jobs; a loop after the dispatch of action p
\* to thread t of workspace a, then after the child asked for input, and a
\* loop after codex/connected of the workspaces a and b
ChatSetups ==
    LET fresh == new(DefaultConfig)
        one == upsert_job(fresh, waiting_job(<<"p">>, <<"a">>, <<"t">>, <<"7">>))
        two == upsert_job(one, waiting_job(<<"q">>, <<"b">>, <<"t">>, <<"8">>))
        dispatched ==
            supervisor_dispatch_core("ok", <<>>, <<>>, fresh,
                Contract(SUPERVISOR_ACTION_CONTRACT_VERSION,
                    << RawAction(<<"p">>, <<"a">>, <<"x">>, Some(<<"t">>), None) >>), 1, 0)
        asked ==
            apply_app_server_event(dispatched.loop, <<"a">>,
                Message("item/tool/requestUserInput", Some(<<"7">>), Some(<<"t">>),
                        Some(<<"u">>), Some(<<"i">>), None, FALSE), 1)
        connected ==
            apply_app_server_event(
                apply_app_server_event(fresh, <<"a">>,
                    Message("codex/connected", None, None, None, None, None, FALSE), 0),
                <<"b">>, Message("codex/connected", None, None, None, None, None, FALSE), 1)
        untouched(s) == [loop |-> s, store |-> <<>>, calls |-> <<>>, entries |-> <<>>,
                         nbatch |-> 0]
        after(s) == [loop |-> s, store |-> dispatched.store, calls |-> dispatched.calls,
                     entries |-> dispatched.entries, nbatch |-> 1]
    IN { untouched(fresh), untouched(one), untouched(two), untouched(connected),
         after(dispatched.loop), after(asked) }

\* dedicated workspace mode for workspace b
DedicatedSettings ==
    [DefaultSettings EXCEPT !.supervisor_dedicated_workspace_enabled = TRUE,
                            !.supervisor_dedicated_workspace_id = Some(<<"b">>),
                            !.supervisor_fast_model = <<"fast">>]

\* [connected, send_ok, settings]: the sessions, their send_response and
\* the settings a chat send finds
ChatEnvs ==
    { [connected |-> {}, send_ok |-> TRUE, settings |-> DefaultSettings],
      [connected |-> {<<"a">>}, send_ok |-> TRUE, settings |-> DefaultSettings],
      [connected |-> {<<"a">>}, send_ok |-> FALSE, settings |-> DefaultSettings],
      [connected |-> {<<"a">>}, send_ok |-> TRUE, settings |-> DedicatedSettings],
      [connected |-> {<<"a">>, <<"b">>}, send_ok |-> TRUE, settings |-> DefaultSettings],
      [connected |-> {<<"a">>, <<"b">>}, send_ok |-> FALSE, settings |-> DefaultSettings],
      [connected |-> {<<"a">>, <<"b">>}, send_ok |-> TRUE, settings |-> DedicatedSettings] }

\* slash commands, right and wrong, and free-form messages
ChatCommands ==
    { <<>>,
      <<" ">>,
      <<"/", "help">>,
      <<" ", "/", "help", " ">>,
      <<"/", "help", " ", "x">>,
      <<"/", "help", " ", "\"">>,
      <<"/", "nope">>,
      <<"/", "dispatch", " ", "--ws", " ", "a">>,
      <<"/", "dispatch", " ", "--ws", " ", "a", " ", "--prompt", " ", "x">>,
      <<"/", "ack", " ", "s">>,
      <<"/", "status">>,
      <<"/", "status", " ", "zz">>,
      <<"/", "feed">>,
      <<"/", "feed", " ", "needs_input">>,
      <<"hi">>,
      <<"Help">>,
      <<"status", "?">>,
      <<"feed">>,
      <<"fix", " ", "A">>,
      <<"@", "p", " ", "yes">>,
      <<"@", "q", " ", "yes">>,
      <<"@", "r", " ", "yes">>,
      <<"@", "p">> }

ChatMessages ==
    { Message("item/tool/requestUserInput", Some(<<"7">>), Some(<<"t">>), Some(<<"u">>),
              Some(<<"i">>), None, FALSE),
      Message("turn/completed", None, Some(<<"t">>), Some(<<"u">>), None, None, FALSE) }

InitChat ==
    /\ backend = "ok"
    /\ \E setup \in ChatSetups :
        /\ idempotency = setup.store
        /\ calls = setup.calls
        /\ history = setup.entries
        /\ nbatch = setup.nbatch
        /\ sup = [setup.loop EXCEPT !.pushed = <<>>]
    /\ last_batch = [actions |-> <<>>, results |-> <<>>]
    /\ last_op = NoOp
    /\ nops = 0
    /\ tasks = NoTasks
    /\ executor_lock = None
    /\ loop_lock = None
    /\ app_locks = NoAppLocks

\* one supervisor_chat_send_core call, alone
ChatSend ==
    \E command \in ChatCommands, found \in ChatEnvs :
        /\ nops < MaxChatOps
        /\ \E out \in {supervisor_chat_send_core(
                            [connected |-> found.connected, send_ok |-> found.send_ok,
                             send_error |-> SendError, settings |-> found.settings,
                             backend |-> backend],
                            [loop |-> [sup EXCEPT !.pushed = <<>>], store |-> idempotency,
                             calls |-> calls, entries |-> <<>>, nbatch |-> nbatch,
                             sent |-> <<>>, routed |-> <<>>, tools |-> <<>>,
                             dispatches |-> 0],
                            command, nops + 2, nops + 3)} :
           /\ idempotency' = out.x.store
           /\ calls' = out.x.calls
           /\ history' = history \o out.x.entries
           /\ nbatch' = out.x.nbatch
           /\ sup' = out.x.loop
           /\ last_op' = [kind |-> "chat_send", command |-> command, env |-> found,
                          received_at_ms |-> nops + 2, ok |-> out.ok,
                          failed |-> IF out.ok THEN out.failed ELSE TRUE,
                          text |-> IF out.ok THEN out.text ELSE out.error,
                          messages |-> IF out.ok THEN out.messages ELSE <<>>,
                          sent |-> out.x.sent, routed |-> out.x.routed,
                          tools |-> out.x.tools, dispatches |-> out.x.dispatches]
        /\ nops' = nops + 1
        /\ UNCHANGED <<backend, last_batch, serviceVars>>

\* one supervisor_chat_history_core call
ChatHistory ==
    /\ nops < MaxChatOps
    /\ last_op' = [kind |-> "chat_history", messages |-> supervisor_chat_history_core(sup)]
    /\ nops' = nops + 1
    /\ UNCHANGED <<execVars, sup, serviceVars>>

\* a session of workspace a sends a message about thread t
ChatSessionEvent ==
    \E message \in ChatMessages :
        /\ nops < MaxChatOps
        /\ \E out \in {apply_app_server_event([sup EXCEPT !.pushed = <<>>], <<"a">>, message,
                                              nops + 2)} :
           sup' = out
        /\ last_op' = [kind |-> "event", workspace_id |-> <<"a">>, message |-> message,
                       received_at_ms |-> nops + 2]
        /\ nops' = nops + 1
        /\ UNCHANGED <<execVars, serviceVars>>

\* a reply to request 7 of a job could not be delivered
ChatReplyFailed ==
    \E job_id \in { <<"p">>, <<"r">> } :
        /\ nops < MaxChatOps
        /\ \E out \in {mark_reply_delivery_failed([sup EXCEPT !.pushed = <<>>], job_id,
                                                  <<"7">>, nops + 2)} :
           sup' = out
        /\ last_op' = [kind |-> "reply_failed", job_id |-> job_id, request_id |-> <<"7">>]
        /\ nops' = nops + 1
        /\ UNCHANGED <<execVars, serviceVars>>

NextChat == ChatSend \/ ChatHistory \/ ChatSessionEvent \/ ChatReplyFailed

SpecChat == InitChat /\ [][NextChat]_vars


-----------------------------------------------------------------------------
(* Free-form replies to waiting subtasks, in specification SpecChat. *)

\* the ids of the jobs that wait for a reply
Waiting(s) ==
    { id \in DOMAIN s.jobs :
        s.jobs[id].status = "WaitingForUser" /\ IsSome(s.jobs[id].waiting_request_id) }

IsFreeForm(command) == Trim(command) # <<>> /\ Head(Trim(command)) # "/"

\* the job id a message of the form @<id> <reply> names
Target(command) ==
    LET c == Trim(command) IN
    IF Len(c) >= 4 /\ c[1] = "@" /\ c[3] = " " THEN Some(<<c[2]>>) ELSE None

\* the reply of a message: what follows @<id>, or the whole message
ReplyOf(command) ==
    IF IsSome(Target(command)) THEN SubSeq(Trim(command), 4, Len(Trim(command)))
    ELSE Trim(command)

\* the send `op` that took the loop from `old` to `now` handed its reply to
\* job `id` and to no other: one send_response to the request of the job
\* when its workspace has a session, and the job runs again when the
\* session took the reply
DeliveredTo(op, old, now, id) ==
    /\ \A i \in 1..Len(op.sent) :
            op.sent[i] = [workspace_id |-> old.jobs[id].workspace_id,
                          request_id |-> Unwrap(old.jobs[id].waiting_request_id),
                          answers |-> ReplyOf(op.command)]
    /\ Len(op.sent) = IF old.jobs[id].workspace_id \in op.env.connected THEN 1 ELSE 0
    /\ (op.sent # <<>> /\ op.env.send_ok) =>
            /\ ~op.failed
            /\ now.jobs[id].status = "Running"
            /\ now.jobs[id].waiting_request_id = None
    /\ \A other \in DOMAIN old.jobs \ {id} : now.jobs[other] = old.jobs[other]

\* the send answered with the list of the waiting subtasks and did nothing else
Disambiguated(op, old, now) ==
    /\ op.sent = <<>>
    /\ now.jobs = old.jobs
    /\ ~op.failed
    /\ \A id \in Waiting(old) : Contains(op.text, id)

\* C16: while a job waits for a reply, a free-form chat message is never
\* routed (no route decision, no local tool, no dispatch); a message
\* @<id> <reply> that names a waiting job goes to that job, an untargeted
\* message goes to the only waiting job; when several jobs wait and no
\* target is given, or the target does not wait, no send_response is made,
\* no job changes and the answer lists the waiting subtasks.
C16_FreeFormReplyRouting ==
    [][(/\ last_op'.kind = "chat_send"
        /\ IsFreeForm(last_op'.command)
        /\ Waiting(sup) # {})
       => /\ last_op'.ok
          /\ last_op'.routed = <<>>
          /\ last_op'.tools = <<>>
          /\ last_op'.dispatches = 0
          /\ IF IsSome(Target(last_op'.command))
                /\ Unwrap(Target(last_op'.command)) \in Waiting(sup)
             THEN DeliveredTo(last_op', sup, sup', Unwrap(Target(last_op'.command)))
             ELSE IF ~IsSome(Target(last_op'.command)) /\ Cardinality(Waiting(sup)) = 1
             THEN DeliveredTo(last_op', sup, sup', CHOOSE id \in Waiting(sup) : TRUE)
             ELSE Disambiguated(last_op', sup, sup')]_vars

\* two jobs waited and the reply to job q went to its request 8
C16_Witness ==
    /\ last_op.kind = "chat_send"
    /\ last_op.command = <<"@", "q", " ", "yes">>
    /\ Len(last_op.sent) = 1
    /\ last_op.sent[1].request_id = <<"8">>
    /\ last_op.sent[1].answers = <<"yes">>
    /\ Waiting(sup) = { <<"p">> }
    /\ sup.jobs[<<"q">>].status = "Running"

-----------------------------------------------------------------------------
(* Failed replies, in specification SpecChat. *)

\* job `id` can be answered in `now` as it could in `old`
Answerable(old, now, id) ==
    /\ id \in DOMAIN now.jobs
    /\ now.jobs[id].status = old.jobs[id].status
    /\ now.jobs[id].waiting_request_id = old.jobs[id].waiting_request_id
    /\ now.jobs[id].waiting_question_ids = old.jobs[id].waiting_question_ids

\* the newest activity is a failed reply that needs input
FailureShown(s) ==
    /\ s.activity_feed # <<>>
    /\ s.activity_feed[1].kind = "reply_delivery_failed"
    /\ s.activity_feed[1].needs_input

\* C17: when send_response fails, or mark_reply_delivery_failed is called
\* for a tracked job, the status, waiting_request_id and
\* waiting_question_ids of the job are unchanged and a reply_delivery_failed
\* activity with needs_input = true is pushed; the chat response of the
\* send shows the error; for an untracked job id mark_reply_delivery_failed
\* changes nothing.
C17_ReplyFailureKeepsAnswerable ==
    [][/\ (/\ last_op'.kind = "chat_send"
           /\ last_op'.sent # <<>>
           /\ ~last_op'.env.send_ok)
          => /\ \A id \in DOMAIN sup.jobs : Answerable(sup, sup', id)
             /\ FailureShown(sup')
             /\ last_op'.ok
             /\ Contains(last_op'.text, SendError)
             /\ last_op'.messages[Len(last_op'.messages)].role = "System"
             /\ last_op'.messages[Len(last_op'.messages)].text = last_op'.text
       /\ last_op'.kind = "reply_failed"
          => IF last_op'.job_id \in DOMAIN sup.jobs
             THEN /\ \A id \in DOMAIN sup.jobs : Answerable(sup, sup', id)
                  /\ FailureShown(sup')
             ELSE StateOf(sup') = StateOf(sup)]_vars

\* a reply to the waiting job p was sent and refused: p still waits
C17_Witness ==
    /\ last_op.kind = "chat_send"
    /\ last_op.sent # <<>>
    /\ ~last_op.env.send_ok
    /\ <<"p">> \in Waiting(sup)
    /\ FailureShown(sup)
    /\ Contains(last_op.text, SendError)

-----------------------------------------------------------------------------
(* Errors of a chat send, in specification SpecChat. *)

\* the history of `now` has a User message with the command that `old` has not
UserCommitted(old, now, command) ==
    \E i \in 1..Len(now.chat_history) :
        /\ now.chat_history[i].role = "User"
        /\ now.chat_history[i].text = Trim(command)
        /\ ~HasId(old.chat_history, now.chat_history[i].id)

\* the send `op` returned Ok with a System message, of the text `prefix`
\* starts when the command failed, and the User message is in the history
ErrorIsChatLine(op, old, now, prefix) ==
    /\ op.ok
    /\ op.messages = now.chat_history
    /\ op.messages[Len(op.messages)].role = "System"
    /\ op.messages[Len(op.messages)].text = op.text
    /\ op.failed => StartsWith(op.text, prefix)
    /\ UserCommitted(old, now, op.command)

-----------------------------------------------------------------------------
(* The order of the chat history, in specification SpecChat. *)

-----------------------------------------------------------------------------
(* What a chat send returns, in specification SpecChat. *)

\* no message is a bridged subtask line
NoBridge(messages) == \A i \in 1..Len(messages) : messages[i].id[1] # "chat-bridge:"

-----------------------------------------------------------------------------
(* Acknowledging signals (SpecAck): session events of workspace a push     *)
(* signals, supervisor_ack_signal_core acknowledges them.                  *)

MaxAckOps == 3

\* the signal ids a caller may pass: the stored ids, as they are and padded,
\* an empty and a blank id, and an id that no signal has
AckIds(s) ==
    { s.signals[i].id : i \in 1..Len(s.signals) }
        \cup { <<" ">> \o s.signals[i].id \o <<" ">> : i \in 1..Len(s.signals) }
        \cup { <<>>, <<" ">>, <<"zz">> }

InitAck ==
    /\ idempotency = <<>>
    /\ calls = <<>>
    /\ backend = "ok"
    /\ history = <<>>
    /\ nbatch = 0
    /\ last_batch = [actions |-> <<>>, results |-> <<>>]
    /\ sup = new(DefaultConfig)
    /\ last_op = NoOp
    /\ nops = 0
    /\ tasks = NoTasks
    /\ executor_lock = None
    /\ loop_lock = None
    /\ app_locks = NoAppLocks

\* a session of workspace a sends a message about thread t
AckSessionEvent ==
    \E message \in JobMessages, received_at_ms \in JobTimes :
        /\ nops < MaxAckOps
        /\ \E out \in {apply_app_server_event([sup EXCEPT !.pushed = <<>>], <<"a">>, message,
                                              received_at_ms)} :
           sup' = out
        /\ last_op' = [kind |-> "event", workspace_id |-> <<"a">>, message |-> message,
                       received_at_ms |-> received_at_ms]
        /\ nops' = nops + 1
        /\ UNCHANGED <<execVars, serviceVars>>

\* one supervisor_ack_signal_core call
AckCall ==
    \E signal_id \in AckIds(sup), acknowledged_at_ms \in JobTimes :
        /\ nops < MaxAckOps
        /\ \E out \in {supervisor_ack_signal_core([sup EXCEPT !.pushed = <<>>], signal_id,
                                                  acknowledged_at_ms)} :
           /\ sup' = out.loop
           /\ last_op' = [kind |-> "ack", signal_id |-> signal_id,
                          acknowledged_at_ms |-> acknowledged_at_ms, ok |-> out.ok]
        /\ nops' = nops + 1
        /\ UNCHANGED <<execVars, serviceVars>>

NextAck == AckSessionEvent \/ AckCall

SpecAck == InitAck /\ [][NextAck]_vars

\* the signals of `now` are those of `old`, in their order, with the signal
\* `id` acknowledged at `at_ms` and nothing else changed
OnlyAcknowledged(old, now, id, at_ms) ==
    /\ Len(now.signals) = Len(old.signals)
    /\ \A i \in 1..Len(old.signals) :
        now.signals[i] =
            IF old.signals[i].id = id
            THEN [old.signals[i] EXCEPT !.acknowledged_at_ms = Some(at_ms)]
            ELSE old.signals[i]
    /\ StateOf([now EXCEPT !.signals = old.signals]) = StateOf(old)

\* C21: supervisor_ack_signal_core with a signal id that is empty or matches
\* no stored signal returns an error and leaves the state unchanged; with an
\* existing id it sets the acknowledged_at_ms of that signal and changes
\* nothing else: not the order of the signals, not the other signals, not
\* any other container.
C21_AckSignal ==
    [][last_op'.kind = "ack"
       => /\ last_op'.ok <=> /\ Trim(last_op'.signal_id) # <<>>
                             /\ HasId(sup.signals, Trim(last_op'.signal_id))
          /\ ~last_op'.ok => StateOf(sup') = StateOf(sup)
          /\ last_op'.ok => OnlyAcknowledged(sup, sup', Trim(last_op'.signal_id),
                                             last_op'.acknowledged_at_ms)]_vars

\* of two stored signals the older one was acknowledged
C21_Witness ==
    /\ last_op.kind = "ack"
    /\ last_op.ok
    /\ Len(sup.signals) = 2
    /\ sup.signals[1].acknowledged_at_ms = None
    /\ sup.signals[2].acknowledged_at_ms = Some(last_op.acknowledged_at_ms)


-----------------------------------------------------------------------------
(* Routing a prompt (SpecRoute): select_supervisor_route is a pure         *)
(* function of a prompt, the workspace metadata and the settings.  The     *)
(* initial states draw the three, Route applies the function.              *)

MaxRouteWorkspaces == 5

\* SupervisorRouteWorkspaceMetadata
route_workspace(id, name, path, branch, health, connected, available, capabilities) ==
    [workspace_id |-> id, name |-> name, path |-> path, branch |-> branch,
     connected |-> connected, available |-> available, health |-> health,
     capabilities |-> capabilities]

\* the metadata a workspace may come with
RouteVariants ==
    { route_workspace(<<"a">>, <<"Main", " ", "x">>, <<"/", "tmp", "/", "app">>, None,
                      h, TRUE, TRUE, 2) : h \in {"Healthy", "Stale"} }
    \cup { route_workspace(<<"b">>, <<"Beta">>, <<>>, Some(<<" ", "main">>),
                           "Healthy", TRUE, v[1], v[2]) : v \in {<<TRUE, 2>>, <<TRUE, 7>>,
                                                                  <<FALSE, 2>>} }
    \cup { route_workspace(<<"c">>, <<>>, <<"/", "tmp", "/">>, Some(<<>>),
                           v[1], v[2], TRUE, 2) : v \in {<<"Healthy", TRUE>>,
                                                         <<"Disconnected", TRUE>>,
                                                         <<"Healthy", FALSE>>} }
    \cup { route_workspace(<<"d">>, <<>>, <<>>, None, "Healthy", TRUE, TRUE, 2),
           route_workspace(<<"p">>, <<>>, <<>>, None, "Healthy", TRUE, TRUE, 2) }

\* the lists of at most n workspaces with distinct ids, in any order
RECURSIVE RouteLists(_)
RouteLists(n) ==
    IF n = 0 THEN { <<>> }
    ELSE LET shorter == RouteLists(n - 1) IN
         shorter \cup
            { Append(p[1], p[2]) :
                p \in { q \in { x \in shorter : Len(x) = n - 1 } \X RouteVariants :
                          \A i \in 1..Len(q[1]) :
                              q[1][i].workspace_id # q[2].workspace_id } }

RoutePrompts ==
    { <<"Please", " ", "handle">>,
      <<" ", "run", " ", "in", " ", "A">>,
      <<"fix", " ", "Main">>,
      <<"use", " ", "beta">>,
      <<"deploy", " ", "app">>,
      <<"show", " ", "status", "?">> }

RouteSettings ==
    { DefaultSettings,
      DedicatedSettings,
      [DedicatedSettings EXCEPT !.supervisor_dedicated_workspace_id = Some(<<" ", "c", " ">>)],
      [DedicatedSettings EXCEPT !.supervisor_dedicated_workspace_id = Some(<<"zz">>)],
      [DedicatedSettings EXCEPT !.supervisor_dedicated_workspace_id = Some(<<" ">>)],
      [DedicatedSettings EXCEPT !.supervisor_dedicated_workspace_id = None] }

InitRoute ==
    /\ idempotency = <<>>
    /\ calls = <<>>
    /\ backend = "ok"
    /\ history = <<>>
    /\ nbatch = 0
    /\ last_batch = [actions |-> <<>>, results |-> <<>>]
    /\ sup = new(DefaultConfig)
    /\ \E prompt \in RoutePrompts, workspaces \in RouteLists(MaxRouteWorkspaces),
          settings \in RouteSettings :
            last_op = [kind |-> "input", prompt |-> prompt, workspaces |-> workspaces,
                       settings |-> settings]
    /\ nops = 0
    /\ tasks = NoTasks
    /\ executor_lock = None
    /\ loop_lock = None
    /\ app_locks = NoAppLocks

\* one select_supervisor_route call
Route ==
    /\ last_op.kind = "input"
    /\ last_op' = [kind |-> "route", prompt |-> last_op.prompt,
                   workspaces |-> last_op.workspaces, settings |-> last_op.settings,
                   route |-> select_supervisor_route(last_op.prompt, last_op.workspaces,
                                                     last_op.settings)]
    /\ nops' = nops + 1
    /\ UNCHANGED <<execVars, serviceVars, sup>>

NextRoute == Route

SpecRoute == InitRoute /\ [][NextRoute]_vars

\* the workspaces a prompt may be delegated to, in the order of the input
Eligible(workspaces) ==
    SelectSeq(workspaces, LAMBDA w :
        w.connected /\ w.available /\ w.health # "Disconnected")

\* the prompt asks for a local tool
LocalToolIntent(prompt) == IsSome(detect_local_tool(Lower(Trim(prompt))))

\* the candidates by falling score, then by rising id: the one arrangement
\* of the eligible workspaces in which each is ranked before the next
Ranked(prompt, workspaces) ==
    LET eligible == Eligible(workspaces)
        p == Lower(Trim(prompt))
        n == Len(eligible)
        rank(w) == Cardinality({ j \in 1..n :
                        \/ route_score(p, eligible[j]) > route_score(p, w)
                        \/ /\ route_score(p, eligible[j]) = route_score(p, w)
                           /\ StrLess(eligible[j].workspace_id, w.workspace_id) })
    IN [i \in 1..n |-> CHOOSE w \in { eligible[j] : j \in 1..n } : rank(w) = i - 1]

\* the two best candidates have the same score and the prompt mentions
\* neither
TiedAtTheTop(prompt, workspaces) ==
    LET ranked == Ranked(prompt, workspaces)
        p == Lower(Trim(prompt))
    IN /\ Len(ranked) >= 2
       /\ route_score(p, ranked[1]) = route_score(p, ranked[2])
       /\ ~prompt_mentions_workspace(p, ranked[1])
       /\ ~prompt_mentions_workspace(p, ranked[2])

\* C22: with dedicated-workspace mode off and no local-tool intent, when the
\* two best candidates after filtering have equal score and the prompt
\* mentions neither, select_supervisor_route returns a Clarification without
\* a workspace_id whose options are the first (up to 4) candidate ids by
\* falling score, then rising id; it never picks one of the tied workspaces.
C22_AmbiguousRouteAsks ==
    /\ last_op.kind = "route"
    /\ ~last_op.settings.supervisor_dedicated_workspace_enabled
    /\ ~LocalToolIntent(last_op.prompt)
    /\ TiedAtTheTop(last_op.prompt, last_op.workspaces)
    => LET ranked == Ranked(last_op.prompt, last_op.workspaces) IN
       /\ last_op.route.kind = "Clarification"
       /\ last_op.route.workspace_id = None
       /\ last_op.route.options
            = [i \in 1..(IF Len(ranked) < 4 THEN Len(ranked) ELSE 4) |->
                    ranked[i].workspace_id]

\* five candidates tie, none is mentioned, and the four first are offered
C22_Witness ==
    /\ last_op.kind = "route"
    /\ ~last_op.settings.supervisor_dedicated_workspace_enabled
    /\ ~LocalToolIntent(last_op.prompt)
    /\ TiedAtTheTop(last_op.prompt, last_op.workspaces)
    /\ Len(Eligible(last_op.workspaces)) = 5
    /\ last_op.workspaces[1].workspace_id = <<"p">>
    /\ last_op.route.kind = "Clarification"
    /\ last_op.route.options = << <<"a">>, <<"b">>, <<"c">>, <<"d">> >>

\* the workspace a WorkspaceDelegate names is an eligible workspace of the
\* input
DelegateIsEligible ==
    last_op.route.kind = "WorkspaceDelegate"
        => /\ IsSome(last_op.route.workspace_id)
           /\ \E i \in 1..Len(last_op.workspaces) :
                /\ last_op.workspaces[i].workspace_id = Unwrap(last_op.route.workspace_id)
                /\ last_op.workspaces[i].connected
                /\ last_op.workspaces[i].available
                /\ last_op.workspaces[i].health # "Disconnected"

\* C23 as stated: a WorkspaceDelegate names an eligible workspace of the
\* input, and whenever the input has no eligible workspace the result is a
\* Clarification with empty options.
C23_Original ==
    last_op.kind = "route"
        => /\ DelegateIsEligible
           /\ Eligible(last_op.workspaces) = <<>>
                => /\ last_op.route.kind = "Clarification"
                   /\ last_op.route.options = <<>>

\* C23: whenever select_supervisor_route returns a WorkspaceDelegate, its
\* workspace_id names an input workspace that is connected, available and
\* not Disconnected, in standard scoring and in dedicated-workspace mode with
\* a configured id, an unavailable configured id and no configured id; when
\* no such workspace exists and the prompt has no local-tool intent, the
\* result is a Clarification with empty options.
C23_DelegateIsEligible ==
    last_op.kind = "route"
        => /\ DelegateIsEligible
           /\ Eligible(last_op.workspaces) = <<>> /\ ~LocalToolIntent(last_op.prompt)
                => /\ last_op.route.kind = "Clarification"
                   /\ last_op.route.options = <<>>

\* the configured dedicated workspace is in the input but not available, and
\* the fallback delegates to another workspace
C23_Witness ==
    /\ last_op.kind = "route"
    /\ last_op.settings.supervisor_dedicated_workspace_enabled
    /\ last_op.settings.supervisor_dedicated_workspace_id = Some(<<"b">>)
    /\ \E i \in 1..Len(last_op.workspaces) :
        /\ last_op.workspaces[i].workspace_id = <<"b">>
        /\ ~last_op.workspaces[i].available
    /\ last_op.route.kind = "WorkspaceDelegate"
    /\ IsSome(last_op.route.fallback_message)
    /\ last_op.route.workspace_id # Some(<<"b">>)

-----------------------------------------------------------------------------
(* The locks of the service (SpecLocks).  An operation of the service is    *)
(* the sequence of its mutex operations and backend calls, in the order    *)
(* the code awaits them; the tasks run their operations interleaved.  A    *)
(* guard is released at the end of the block or statement that took it.    *)

MaxLockActions == 1

Lock(mutex) == [op |-> "lock", on |-> mutex]
Unlock(mutex) == [op |-> "unlock", on |-> mutex]
BackendCall(name) == [op |-> "call", on |-> name]

\* supervisor_loop.lock().await and the drop of its guard, nothing awaited
\* in between
loop_locked == << Lock("loop"), Unlock("loop") >>

supervisor_snapshot_awaits == loop_locked

supervisor_feed_awaits == supervisor_snapshot_awaits

supervisor_chat_history_awaits == loop_locked

\* the id is blank, or the signals are searched and one is acknowledged
supervisor_ack_signal_awaits == { <<>>, loop_locked }

\* collect_health_inputs: the guard of the sessions is dropped at the end of
\* its block, the guard of the workspaces when the function returns
collect_health_inputs_awaits ==
    << Lock("sessions"), Unlock("sessions"), Lock("workspaces"), Unlock("workspaces") >>

\* the inputs are collected from the sessions and the workspaces first
run_health_pull_tick_awaits == collect_health_inputs_awaits \o loop_locked

\* the task emit_app_server_event spawns
emit_app_server_event_awaits == loop_locked

\* WorkspaceSessionDispatchBackend::session_for_workspace
session_for_workspace_awaits == << Lock("sessions"), Unlock("sessions") >>

\* a call of WorkspaceSessionDispatchBackend: the workspace has no session,
\* or the request is sent to its session
backend_call_awaits(name) ==
    { session_for_workspace_awaits,
      session_for_workspace_awaits \o << BackendCall(name) >> }

\* dispatch_action: an invalid or replayed action, a thread that cannot be
\* ensured, and a thread resumed or started followed by its turn
dispatch_action_awaits ==
    { <<>> }
    \cup backend_call_awaits("resume_thread") \cup backend_call_awaits("start_thread")
    \cup { session_for_workspace_awaits \o << BackendCall(thread) >> \o turn :
                thread \in { "resume_thread", "start_thread" },
                turn \in backend_call_awaits("start_turn") }

\* dispatch_batch of n actions
RECURSIVE dispatch_batch_awaits(_)
dispatch_batch_awaits(n) ==
    IF n = 0 THEN { <<>> }
    ELSE { batch \o action : batch \in dispatch_batch_awaits(n - 1),
                             action \in dispatch_action_awaits }

apply_dispatch_outcome_events_awaits == loop_locked

\* the outcome events are applied before the guard of the executor is dropped
supervisor_dispatch_core_nested ==
    { <<>> } \cup
    { << Lock("executor") >> \o batch \o apply_dispatch_outcome_events_awaits
        \o << Unlock("executor") >> :
        batch \in UNION { dispatch_batch_awaits(n) : n \in 1..MaxLockActions } }

\* supervisor_dispatch_core: an invalid contract, or a batch of at least one
\* action under the executor mutex and then the outcome events
supervisor_dispatch_core_awaits ==
    { <<>> } \cup
    { << Lock("executor") >> \o batch \o << Unlock("executor") >>
        \o apply_dispatch_outcome_events_awaits :
        batch \in UNION { dispatch_batch_awaits(n) : n \in 1..MaxLockActions } }

\* deliver_reply_to_waiting_subtask: no request or no session, or the
\* response is sent and the delivery or its failure recorded
deliver_reply_to_waiting_subtask_awaits ==
    { <<>>,
      << Lock("sessions"), Unlock("sessions") >>,
      << Lock("sessions"), Unlock("sessions"), BackendCall("send_response") >>
        \o loop_locked }

\* try_route_reply_to_waiting_subtask, and whether the message was handled
try_route_reply_to_waiting_subtask_awaits ==
    { [steps |-> loop_locked, handled |-> FALSE],
      [steps |-> loop_locked \o loop_locked, handled |-> TRUE],
      [steps |-> loop_locked, handled |-> TRUE] }
    \cup { [steps |-> loop_locked \o deliver, handled |-> TRUE] :
            deliver \in deliver_reply_to_waiting_subtask_awaits }

\* collect_route_workspace_metadata: the snapshot, then the sessions and
\* the workspaces, each in a block of its own
collect_route_workspace_metadata_awaits ==
    supervisor_snapshot_awaits
        \o << Lock("sessions"), Unlock("sessions"), Lock("workspaces"), Unlock("workspaces") >>

\* collect_route_workspace_metadata, the settings and record_route_decision
build_freeform_dispatch_request_awaits ==
    collect_route_workspace_metadata_awaits
        \o << Lock("app_settings"), Unlock("app_settings") >> \o loop_locked

\* help, status and feed
execute_local_tool_route_awaits == { <<>>, supervisor_snapshot_awaits, supervisor_feed_awaits }

\* help, status, feed, ack and dispatch
execute_parsed_supervisor_chat_command_awaits ==
    { <<>>, supervisor_snapshot_awaits \o << Lock("workspaces"), Unlock("workspaces") >>,
      supervisor_feed_awaits }
        \cup supervisor_ack_signal_awaits
        \cup supervisor_dispatch_core_awaits

execute_freeform_supervisor_chat_awaits ==
    { reply.steps : reply \in { r \in try_route_reply_to_waiting_subtask_awaits : r.handled } }
    \cup { reply.steps \o build_freeform_dispatch_request_awaits \o rest :
            reply \in { r \in try_route_reply_to_waiting_subtask_awaits : ~r.handled },
            rest \in supervisor_dispatch_core_awaits \cup execute_local_tool_route_awaits }

\* a command that does not parse awaits nothing
execute_supervisor_chat_command_awaits ==
    execute_parsed_supervisor_chat_command_awaits \cup execute_freeform_supervisor_chat_awaits

\* supervisor_chat_send_core: an empty command, or the command and the
\* two messages appended
supervisor_chat_send_awaits ==
    { <<>> } \cup { command \o loop_locked : command \in execute_supervisor_chat_command_awaits }

\* the operations of the service
ServiceOperations ==
    { [op |-> "snapshot", steps |-> supervisor_snapshot_awaits],
      [op |-> "feed", steps |-> supervisor_feed_awaits],
      [op |-> "chat_history", steps |-> supervisor_chat_history_awaits],
      [op |-> "health_tick", steps |-> run_health_pull_tick_awaits],
      [op |-> "event", steps |-> emit_app_server_event_awaits] }
    \cup { [op |-> "ack", steps |-> steps] : steps \in supervisor_ack_signal_awaits }
    \cup { [op |-> "dispatch", steps |-> steps] : steps \in supervisor_dispatch_core_awaits }
    \cup { [op |-> "chat_send", steps |-> steps] : steps \in supervisor_chat_send_awaits }

InitLocks ==
    /\ idempotency = <<>>
    /\ calls = <<>>
    /\ backend = "ok"
    /\ history = <<>>
    /\ nbatch = 0
    /\ last_batch = [actions |-> <<>>, results |-> <<>>]
    /\ sup = new(DefaultConfig)
    /\ last_op = NoOp
    /\ nops = 0
    /\ tasks = [t \in Tasks |-> [op |-> "none", steps |-> <<>>]]
    /\ executor_lock = None
    /\ loop_lock = None
    /\ app_locks = NoAppLocks

\* a task that has finished its operation starts another one
Invoke(t) ==
    \E operation \in ServiceOperations :
        /\ tasks[t].steps = <<>>
        /\ tasks' = [tasks EXCEPT ![t] = operation]
        /\ UNCHANGED <<execVars, loopVars, executor_lock, loop_lock, app_locks>>

\* the rest of the operation of a task
advance(t) == [tasks EXCEPT ![t].steps = Tail(@)]

\* lock().await returns: nobody holds the mutex
Acquire(t) ==
    /\ tasks[t].steps # <<>>
    /\ Head(tasks[t].steps).op = "lock"
    /\ LET mutex == Head(tasks[t].steps).on IN
       CASE mutex = "loop" ->
                /\ loop_lock = None
                /\ loop_lock' = Some(t)
                /\ UNCHANGED <<executor_lock, app_locks>>
         [] mutex = "executor" ->
                /\ executor_lock = None
                /\ executor_lock' = Some(t)
                /\ UNCHANGED <<loop_lock, app_locks>>
         [] OTHER ->
                /\ app_locks[mutex] = None
                /\ app_locks' = [app_locks EXCEPT ![mutex] = Some(t)]
                /\ UNCHANGED <<loop_lock, executor_lock>>
    /\ tasks' = advance(t)
    /\ UNCHANGED <<execVars, loopVars>>

\* the guard is leaked: the task goes on and the mutex stays locked
ReleaseLeaking(t) ==
    /\ tasks[t].steps # <<>>
    /\ Head(tasks[t].steps).op = "unlock"
    /\ tasks' = advance(t)
    /\ UNCHANGED <<execVars, loopVars, executor_lock, loop_lock, app_locks>>

\* the guard of a mutex is dropped
Release(t) ==
    /\ tasks[t].steps # <<>>
    /\ Head(tasks[t].steps).op = "unlock"
    /\ LET mutex == Head(tasks[t].steps).on IN
       CASE mutex = "loop" -> loop_lock' = None /\ UNCHANGED <<executor_lock, app_locks>>
         [] mutex = "executor" ->
                executor_lock' = None /\ UNCHANGED <<loop_lock, app_locks>>
         [] OTHER ->
                /\ app_locks' = [app_locks EXCEPT ![mutex] = None]
                /\ UNCHANGED <<loop_lock, executor_lock>>
    /\ tasks' = advance(t)
    /\ UNCHANGED <<execVars, loopVars>>

\* a call of the backend is made and returns
Backend(t) ==
    /\ tasks[t].steps # <<>>
    /\ Head(tasks[t].steps).op = "call"
    /\ tasks' = advance(t)
    /\ UNCHANGED <<execVars, loopVars, executor_lock, loop_lock, app_locks>>

NextLocks == \E t \in Tasks : Invoke(t) \/ Acquire(t) \/ Release(t) \/ Backend(t)

SpecLocks == InitLocks /\ [][NextLocks]_vars

\* what a task is about to do
About(t, op) == tasks[t].steps # <<>> /\ Head(tasks[t].steps).op = op

\* C24: in every interleaving of the service operations (dispatch, chat
\* send, ack, feed, snapshot, health tick, event application) no task holds
\* the loop lock and the executor lock at the same time, the executor lock
\* is never requested while the loop lock is held, and the loop lock is
\* never held across a backend call (start_thread, resume_thread,
\* start_turn, send_response).
C24_LockDiscipline ==
    \A t \in Tasks :
        /\ ~(loop_lock = Some(t) /\ executor_lock = Some(t))
        /\ About(t, "lock") /\ Head(tasks[t].steps).on = "executor" => loop_lock # Some(t)
        /\ About(t, "call") => loop_lock # Some(t)

\* a dispatch is about to call start_turn under the executor mutex while a
\* chat send waits for that mutex, and neither holds the loop lock
C24_Witness ==
    \E t, u \in Tasks :
        /\ tasks[t].op = "dispatch"
        /\ executor_lock = Some(t)
        /\ About(t, "call") /\ Head(tasks[t].steps).on = "start_turn"
        /\ tasks[u].op = "chat_send"
        /\ About(u, "lock") /\ Head(tasks[u].steps).on = "executor"
        /\ Len(tasks[u].steps) > 6
        /\ loop_lock = None

-----------------------------------------------------------------------------
(* The event sink (SpecSink).  TauriEventSink::emit_app_server_event       *)
(* spawns one task for each event of a session; the task takes the loop    *)
(* lock and applies the event.  The runtime polls the spawned tasks in any *)
(* order.  `tasks` holds the spawned tasks that have not run, each with    *)
(* the number of its emission; last_op.applied lists the emissions in the  *)
(* order they were applied.                                                *)

MaxEmitted == 3

SinkMessages ==
    { Message("turn/started", None, Some(<<"t">>), Some(<<"u">>), None, None, FALSE),
      Message("turn/completed", None, Some(<<"t">>), Some(<<"u">>), None, None, FALSE),
      Message("item/started", None, Some(<<"t">>), None, Some(<<"i">>), None, FALSE),
      Message("error", None, Some(<<"t">>), Some(<<"u">>), None, Some(<<"x">>), FALSE) }

InitSink ==
    /\ idempotency = <<>>
    /\ calls = <<>>
    /\ backend = "ok"
    /\ history = <<>>
    /\ nbatch = 0
    /\ last_batch = [actions |-> <<>>, results |-> <<>>]
    /\ sup = new(DefaultConfig)
    /\ last_op = [kind |-> "none", applied |-> <<>>]
    /\ nops = 0
    /\ tasks = <<>>
    /\ executor_lock = None
    /\ loop_lock = None
    /\ app_locks = NoAppLocks

\* emit_app_server_event: the session of workspace a emits its next event and
\* a task is spawned for it
EmitAppServerEvent ==
    \E message \in SinkMessages :
        /\ nops < MaxEmitted
        /\ nops' = nops + 1
        /\ tasks' = Append(tasks, [seq |-> nops + 1, workspace_id |-> <<"a">>,
                                   message |-> message])
        /\ last_op' = [kind |-> "emit", applied |-> last_op.applied]
        /\ UNCHANGED <<execVars, sup, executor_lock, loop_lock, app_locks>>

\* supervisor_loop.lock().await returns in one of the spawned tasks
SinkTaskLock ==
    \E i \in 1..Len(tasks) :
        /\ loop_lock = None
        /\ loop_lock' = Some(tasks[i].seq)
        /\ UNCHANGED <<execVars, loopVars, tasks, executor_lock, app_locks>>

\* the task that holds the lock applies its event, at the time it reads from
\* the clock, and ends
SinkTaskApply ==
    \E i \in 1..Len(tasks) :
        /\ loop_lock = Some(tasks[i].seq)
        /\ \E out \in {apply_app_server_event([sup EXCEPT !.pushed = <<>>],
                                              tasks[i].workspace_id, tasks[i].message,
                                              Len(last_op.applied))} :
           sup' = out
        /\ last_op' = [kind |-> "apply", applied |-> Append(last_op.applied, tasks[i].seq)]
        /\ tasks' = SubSeq(tasks, 1, i - 1) \o SubSeq(tasks, i + 1, Len(tasks))
        /\ loop_lock' = None
        /\ UNCHANGED <<execVars, nops, executor_lock, app_locks>>

NextSink == EmitAppServerEvent \/ SinkTaskLock \/ SinkTaskApply

SpecSink == InitSink /\ [][NextSink]_vars

\* C25: session events are applied to the SupervisorLoop in the order they
\* were received: when a session emits e1 before e2 through
\* emit_app_server_event, apply_app_server_event for e1 completes before
\* the one for e2 starts.
C25_EmissionOrder ==
    /\ \A i, j \in 1..Len(last_op.applied) :
            i < j => last_op.applied[i] < last_op.applied[j]
    /\ \A i \in 1..Len(tasks) :
            loop_lock = Some(tasks[i].seq)
                => \A j \in 1..Len(tasks) : tasks[j].seq >= tasks[i].seq

-----------------------------------------------------------------------------
(* The idempotency store and failures (SpecExec). *)

\* the idempotency key of a valid action
Key(action) == idempotency_key(try_from(action).value)

\* the entry ran the action against the backend and the action failed
FailedRun(e) ==
    Valid(e.action) /\ ~e.result.idempotent_replay /\ e.result.status = "Failed"

\* C26: when the backend execution of an action ends Failed (thread
\* acquisition or start_turn returned an error, 'workspace is not connected'
\* included), the Failed result is stored under its idempotency key, and
\* every later action with that key returns Failed with the same error and
\* idempotent_replay = true without a backend call, whatever the backend
\* would answer by then; a normalization failure stores nothing.
C26_FailuresAreCached ==
    /\ \A i \in Entries :
        FailedRun(history[i])
        => /\ Key(history[i].action) \in DOMAIN idempotency
           /\ idempotency[Key(history[i].action)] = history[i].result
           /\ \A j \in Entries :
                j > i /\ Valid(history[j].action)
                      /\ Key(history[j].action) = Key(history[i].action)
                => /\ history[j].result.status = "Failed"
                   /\ history[j].result.error = history[i].result.error
                   /\ history[j].result.idempotent_replay
                   /\ history[j].calls_to = history[j].calls_from
    /\ DOMAIN idempotency
        = { Key(history[i].action) : i \in { e \in Entries : Valid(history[e].action) } }

\* the session of the workspace was not connected when an action was
\* dispatched; a later batch repeats the key when the session answers, and
\* gets the failure back
C26_Witness ==
    \E i, j \in Entries :
        /\ FailedRun(history[i])
        /\ history[i].result.error = Some(<<"workspace is not connected", <<"a">> >>)
        /\ history[j].batch > history[i].batch
        /\ history[j].batch = nbatch
        /\ backend = "ok"
        /\ Valid(history[j].action)
        /\ Key(history[j].action) = Key(history[i].action)
        /\ history[j].result.idempotent_replay
        /\ history[j].result.status = "Failed"
        /\ history[j].calls_to = history[j].calls_from

\* the normalized action id of an action
NormalizedActionId(action) == Trim(action.action_id)

\* C27: an idempotent replay result carries the action_id of the replaying
\* action, not that of the action that produced the stored result; every
\* other field except idempotent_replay equals the stored result, and the
\* stored entry is not modified by the replay.
C27_ReplayCarriesOwnActionId ==
    \A j \in Entries :
        history[j].result.idempotent_replay
        => \E i \in 1..(j - 1) :
            /\ Valid(history[i].action)
            /\ ~history[i].result.idempotent_replay
            /\ Key(history[i].action) = Key(history[j].action)
            /\ history[j].result
                = [history[i].result EXCEPT
                        !.action_id = NormalizedActionId(history[j].action),
                        !.idempotent_replay = TRUE]
            /\ idempotency[Key(history[j].action)] = history[i].result

\* a Dispatched result is replayed to an action with another action id
C27_Witness ==
    \E i, j \in Entries :
        /\ i < j
        /\ ~history[i].result.idempotent_replay
        /\ history[i].result.status = "Dispatched"
        /\ history[j].result.idempotent_replay
        /\ Key(history[i].action) = Key(history[j].action)
        /\ history[j].result.action_id # history[i].result.action_id
        /\ history[j].result.action_id = NormalizedActionId(history[j].action)
        /\ ~idempotency[Key(history[j].action)].idempotent_replay

-----------------------------------------------------------------------------
(* Removes after session events (SpecCascade): the sessions of workspaces  *)
(* a and b send messages about thread t, and a workspace or a thread is    *)
(* removed by a RemoveWorkspace or RemoveThread update.                    *)

MaxCascadeOps == 3

InitCascade ==
    /\ idempotency = <<>>
    /\ calls = <<>>
    /\ backend = "ok"
    /\ history = <<>>
    /\ nbatch = 0
    /\ last_batch = [actions |-> <<>>, results |-> <<>>]
    /\ sup = new(DefaultConfig)
    /\ last_op = NoOp
    /\ nops = 0
    /\ tasks = NoTasks
    /\ executor_lock = None
    /\ loop_lock = None
    /\ app_locks = NoAppLocks

\* a session sends a message about thread t
CascadeSessionEvent ==
    \E workspace_id \in ReducerWorkspaces, message \in JobMessages :
        /\ nops < MaxCascadeOps
        /\ \E out \in {apply_app_server_event([sup EXCEPT !.pushed = <<>>], workspace_id,
                                              message, nops)} :
           sup' = out
        /\ last_op' = [kind |-> "event", workspace_id |-> workspace_id, message |-> message,
                       received_at_ms |-> nops]
        /\ nops' = nops + 1
        /\ UNCHANGED <<execVars, serviceVars>>

\* apply_update with RemoveWorkspace or RemoveThread
CascadeRemove ==
    \E update \in
        { [type |-> "RemoveWorkspace", workspace_id |-> w] : w \in ReducerWorkspaces }
        \cup { [type |-> "RemoveThread", workspace_id |-> w, thread_id |-> <<"t">>] :
                w \in ReducerWorkspaces } :
        /\ nops < MaxCascadeOps
        /\ \E out \in {apply_update([sup EXCEPT !.pushed = <<>>], update)} : sup' = out
        /\ last_op' = [kind |-> "update", update |-> update, before |-> sup]
        /\ nops' = nops + 1
        /\ UNCHANGED <<execVars, serviceVars>>

NextCascade == CascadeSessionEvent \/ CascadeRemove

SpecCascade == InitCascade /\ [][NextCascade]_vars

\* the entries of a sequence that name workspace w
NamingWorkspace(entries, w) ==
    { i \in 1..Len(entries) : entries[i].workspace_id = Some(w) }

\* the entries of a sequence that name thread t of workspace w
NamingThread(entries, w, t) ==
    { i \in NamingWorkspace(entries, w) : entries[i].thread_id = Some(t) }

\* something in the state refers to workspace w
RefersToWorkspace(s, w) ==
    \/ w \in DOMAIN s.workspaces
    \/ OfWorkspace(s.threads, w) # {}
    \/ OfWorkspace(s.jobs, w) # {}
    \/ OfWorkspace(s.open_questions, w) # {}
    \/ OfWorkspace(s.pending_approvals, w) # {}
    \/ NamingWorkspace(s.signals, w) # {}
    \/ NamingWorkspace(s.activity_feed, w) # {}

\* something in the state refers to thread t of workspace w
RefersToThread(s, w, t) ==
    \/ \E k \in OfWorkspace(s.threads, w) : s.threads[k].id = t
    \/ \E k \in OfWorkspace(s.jobs, w) : s.jobs[k].thread_id = Some(t)
    \/ \E k \in OfWorkspace(s.open_questions, w) : s.open_questions[k].thread_id = t
    \/ \E k \in OfWorkspace(s.pending_approvals, w) :
            s.pending_approvals[k].thread_id = Some(t)
    \/ w \in DOMAIN s.workspaces /\ s.workspaces[w].active_thread_id = Some(t)
    \/ NamingThread(s.signals, w, t) # {}
    \/ NamingThread(s.activity_feed, w, t) # {}

\* C28: cascaded removes leave no dangling references: after
\* RemoveWorkspace(w) or RemoveThread(w, t) applied to any reachable state,
\* nothing that remains in the SupervisorState refers to the removed
\* workspace id or thread id.
C28_NoDanglingReferences ==
    last_op.kind = "update"
        => /\ last_op.update.type = "RemoveWorkspace"
                => ~RefersToWorkspace(sup, last_op.update.workspace_id)
           /\ last_op.update.type = "RemoveThread"
                => ~RefersToThread(sup, last_op.update.workspace_id,
                                   last_op.update.thread_id)

-----------------------------------------------------------------------------
(* Errors of child sessions (SpecErrors): jobs are dispatched to thread t  *)
(* of workspaces a and b and to a new thread of workspace a, and the       *)
(* sessions report errors, with and without a thread id.                   *)

MaxErrOps == 3

ErrContracts ==
    JobContracts
    \cup { Contract(SUPERVISOR_ACTION_CONTRACT_VERSION,
                    << RawAction(<<"r">>, <<"a">>, <<"x">>, None, None) >>) }

ErrMessages ==
    { Message("error", None, thread_id, Some(<<"u">>), None, Some(text[1]), text[2]) :
        thread_id \in { None, Some(<<"t">>) },
        text \in { << <<"x">>, FALSE >>, << <<"y">>, TRUE >> } }
    \cup { Message("error", None, None, None, None, Some(<<"x">>), FALSE),
           Message("turn/completed", None, Some(<<"t">>), Some(<<"u">>), None, None, FALSE) }

InitErrors ==
    /\ idempotency = <<>>
    /\ calls = <<>>
    /\ backend = "ok"
    /\ history = <<>>
    /\ nbatch = 0
    /\ last_batch = [actions |-> <<>>, results |-> <<>>]
    /\ sup = new(DefaultConfig)
    /\ last_op = NoOp
    /\ nops = 0
    /\ tasks = NoTasks
    /\ executor_lock = None
    /\ loop_lock = None
    /\ app_locks = NoAppLocks

\* one supervisor_dispatch_core call, alone
ErrDispatch ==
    \E contract \in ErrContracts :
        /\ nops < MaxErrOps
        /\ \E out \in {supervisor_dispatch_core(backend, idempotency, calls,
                                                [sup EXCEPT !.pushed = <<>>], contract,
                                                nbatch + 1, nops)} :
           /\ idempotency' = out.store
           /\ calls' = out.calls
           /\ history' = history \o out.entries
           /\ sup' = out.loop
           /\ last_batch' = IF out.ok
                            THEN [actions |-> contract.actions, results |-> out.results]
                            ELSE last_batch
        /\ nbatch' = nbatch + 1
        /\ last_op' = [kind |-> "dispatch", contract |-> contract, timestamp_ms |-> nops]
        /\ nops' = nops + 1
        /\ UNCHANGED <<backend, serviceVars>>

\* a session sends a message
ErrSessionEvent ==
    \E workspace_id \in ReducerWorkspaces, message \in ErrMessages :
        /\ nops < MaxErrOps
        /\ \E out \in {apply_app_server_event([sup EXCEPT !.pushed = <<>>], workspace_id,
                                              message, nops)} :
           sup' = out
        /\ last_op' = [kind |-> "event", workspace_id |-> workspace_id, message |-> message,
                       received_at_ms |-> nops]
        /\ nops' = nops + 1
        /\ UNCHANGED <<execVars, serviceVars>>

NextErrors == ErrDispatch \/ ErrSessionEvent

SpecErrors == InitErrors /\ [][NextErrors]_vars

\* the job of state `now` that the event matched in state `old` is Running
\* with the error it had when the child will retry, and Failed with the
\* message of the event otherwise
ErrorOnJob(old, now, op) ==
    LET found == job_for_event(old, op.workspace_id, op.message.thread_id) IN
    IsSome(found)
        => LET job == now.jobs[Unwrap(found).id] IN
           IF op.message.will_retry
           THEN job.status = "Running" /\ job.error = Unwrap(found).error
           ELSE job.status = "Failed" /\ job.error = op.message.message

\* a Failed signal and an error activity of the workspace and the thread
\* of the event are at the front of their lists
ErrorShown(now, op) ==
    /\ now.signals # <<>>
    /\ now.signals[1].kind = "Failed"
    /\ now.signals[1].workspace_id = Some(op.workspace_id)
    /\ now.signals[1].thread_id = op.message.thread_id
    /\ now.signals[1].created_at_ms = op.received_at_ms
    /\ \E i \in 1..Len(now.pushed) : now.pushed[i].kind = "Failed"
    /\ now.activity_feed # <<>>
    /\ now.activity_feed[1].kind = "error"
    /\ now.activity_feed[1].workspace_id = Some(op.workspace_id)
    /\ now.activity_feed[1].thread_id = op.message.thread_id
    /\ now.activity_feed[1].created_at_ms = op.received_at_ms

\* the thread of the event is Failed, and no thread is touched when the
\* event has no thread id
ErrorOnThread(old, now, op) ==
    IF IsSome(op.message.thread_id)
    THEN LET key == thread_map_key(op.workspace_id, Unwrap(op.message.thread_id)) IN
         /\ key \in DOMAIN now.threads
         /\ now.threads[key].status = "Failed"
         /\ \A k \in (DOMAIN old.threads) \ {key} :
                k \in DOMAIN now.threads /\ now.threads[k] = old.threads[k]
    ELSE now.threads = old.threads

\* C29: for an Error event the matching job becomes Running when will_retry
\* is true, its error field untouched, and Failed with error = the event
\* message when will_retry is false; in both cases a Failed signal and an
\* 'error' activity are pushed, and the thread is marked Failed only when
\* the event carries a thread_id.
C29_ErrorEvent ==
    [][last_op'.kind = "event" /\ last_op'.message.method = "error"
       => /\ ErrorOnJob(sup, sup', last_op')
          /\ ErrorShown(sup', last_op')
          /\ ErrorOnThread(sup, sup', last_op')]_vars

\* the job that failed with 'x' is reported to fail with 'y' and to retry,
\* by an event without a thread id: it is Running and its error is still 'x'
C29_Witness ==
    /\ last_op.kind = "event"
    /\ last_op.message.method = "error"
    /\ last_op.message.will_retry
    /\ last_op.message.thread_id = None
    /\ last_op.workspace_id = <<"a">>
    /\ <<"p">> \in DOMAIN sup.jobs
    /\ sup.jobs[<<"p">>].status = "Running"
    /\ sup.jobs[<<"p">>].error = Some(<<"x">>)
    /\ sup.signals[1].kind = "Failed"
    /\ sup.activity_feed[1].kind = "error"

-----------------------------------------------------------------------------
(* Matching a job (SpecMatch): job_for_event is a function of the jobs of  *)
(* the state, a workspace id and an optional thread id.  The initial       *)
(* states draw the jobs and the query, MatchJob applies the function.      *)

MaxMatchJobs == 3

MatchJobIds == << <<"p">>, <<"q">>, <<"r">> >>

\* the jobs a state may hold under one id
MatchJobs(id) ==
    { [ReducerJob(id, w, at_ms) EXCEPT !.thread_id = thread_id, !.status = status] :
        w \in ReducerWorkspaces, at_ms \in JobTimes,
        thread_id \in { None, Some(<<"t">>) },
        status \in { "Pending", "Running", "Completed", "Failed" } }

\* the maps of at most n jobs, each under its id
MatchJobMaps(n) ==
    UNION { { jobs \in [ids -> UNION { MatchJobs(MatchJobIds[i]) : i \in 1..n }] :
                \A id \in ids : jobs[id].id = id } :
            ids \in SUBSET { MatchJobIds[i] : i \in 1..n } }

MatchThreads == { None, Some(<<"t">>), Some(<<"s">>) }

InitMatch ==
    /\ idempotency = <<>>
    /\ calls = <<>>
    /\ backend = "ok"
    /\ history = <<>>
    /\ nbatch = 0
    /\ last_batch = [actions |-> <<>>, results |-> <<>>]
    /\ \E jobs \in MatchJobMaps(IF MaxMatchJobs < 3 THEN MaxMatchJobs ELSE 3) :
            sup = [new(DefaultConfig) EXCEPT !.jobs = jobs]
    /\ \E workspace_id \in ReducerWorkspaces, thread_id \in MatchThreads :
            last_op = [kind |-> "query", workspace_id |-> workspace_id,
                       thread_id |-> thread_id]
    /\ nops = 0
    /\ tasks = NoTasks
    /\ executor_lock = None
    /\ loop_lock = None
    /\ app_locks = NoAppLocks

\* one job_for_event call
MatchJob ==
    /\ last_op.kind = "query"
    /\ last_op' = [kind |-> "match", workspace_id |-> last_op.workspace_id,
                   thread_id |-> last_op.thread_id,
                   found |-> job_for_event(sup, last_op.workspace_id, last_op.thread_id)]
    /\ nops' = nops + 1
    /\ UNCHANGED <<execVars, serviceVars, sup>>

NextMatch == MatchJob

SpecMatch == InitMatch /\ [][NextMatch]_vars

\* the jobs of the workspace, and of the thread when one is supplied
Matching(s, workspace_id, thread_id) ==
    { id \in DOMAIN s.jobs :
        /\ s.jobs[id].workspace_id = workspace_id
        /\ thread_id # None => s.jobs[id].thread_id = thread_id }

\* non-terminal before terminal, then the later request, then the smaller id
Precedes(left, right) ==
    \/ ~is_terminal(left.status) /\ is_terminal(right.status)
    \/ /\ is_terminal(left.status) = is_terminal(right.status)
       /\ \/ left.requested_at_ms > right.requested_at_ms
          \/ /\ left.requested_at_ms = right.requested_at_ms
             /\ StrLess(left.id, right.id)

\* C30: job_for_event(workspace, thread?) returns the first job, among the
\* jobs of that workspace (and with exactly that thread_id when one is
\* supplied), under the order non-terminal before terminal, then
\* requested_at_ms descending, then id ascending; it returns none exactly
\* when no job of the workspace (and thread) exists, and it never returns a
\* job of another workspace.
C30_JobMatchingRule ==
    last_op.kind = "match"
        => LET matching == Matching(sup, last_op.workspace_id, last_op.thread_id) IN
           /\ last_op.found = None <=> matching = {}
           /\ last_op.found # None
                => LET job == Unwrap(last_op.found) IN
                   /\ job.id \in matching
                   /\ job = sup.jobs[job.id]
                   /\ job.workspace_id = last_op.workspace_id
                   /\ \A id \in matching \ {job.id} : Precedes(job, sup.jobs[id])

\* of three jobs of the workspace the oldest is terminal, and of the two
\* others the one requested later is returned although its id is larger;
\* no thread is supplied
C30_Witness ==
    /\ last_op.kind = "match"
    /\ last_op.thread_id = None
    /\ Cardinality(Matching(sup, last_op.workspace_id, None)) = 3
    /\ last_op.found # None
    /\ Unwrap(last_op.found).id = <<"q">>
    /\ Unwrap(last_op.found).requested_at_ms = 1
    /\ sup.jobs[<<"p">>].requested_at_ms = 0
    /\ sup.jobs[<<"p">>].status = "Running"
    /\ sup.jobs[<<"r">>].status = "Completed"
    /\ sup.jobs[<<"r">>].requested_at_ms = 1

-----------------------------------------------------------------------------
(* Dispatch outcomes in the loop (SpecOutcome): supervisor_dispatch_core   *)
(* calls, one at a time, with batches of one and two actions on thread t   *)
(* of workspaces a and b, while the session of workspace a starts and      *)
(* stops failing, and the sessions report on thread t of workspace a.      *)

MaxOutcomeOps == 3

OutcomeBackends == { "ok", "turn_error", "thread_error" }

\* p and r on thread t of workspace a, q a second request for the work of
\* p, s on thread t of workspace b
OutcomeContracts ==
    { Contract(SUPERVISOR_ACTION_CONTRACT_VERSION, actions) :
        actions \in
          { << RawAction(<<"p">>, <<"a">>, <<"x">>, Some(<<"t">>), None) >>,
            << RawAction(<<"q">>, <<"a">>, <<"x">>, Some(<<"t">>), Some(<<"p">>)) >>,
            << RawAction(<<"r">>, <<"a">>, <<"x">>, Some(<<"t">>), None) >>,
            << RawAction(<<"r">>, <<"a">>, <<"x">>, Some(<<"t">>), None),
               RawAction(<<"p">>, <<"a">>, <<"x">>, Some(<<"t">>), None) >>,
            << RawAction(<<"p">>, <<"a">>, <<"x">>, Some(<<"t">>), None),
               RawAction(<<"s">>, <<"b">>, <<"x">>, Some(<<"t">>), None) >> } }

OutcomeMessages ==
    { Message("turn/completed", None, Some(<<"t">>), Some(<<"u">>), None, None, FALSE),
      Message("item/tool/requestUserInput", Some(<<"7">>), Some(<<"t">>), Some(<<"u">>),
              Some(<<"i">>), None, FALSE) }

InitOutcome ==
    /\ idempotency = <<>>
    /\ calls = <<>>
    /\ backend \in OutcomeBackends
    /\ history = <<>>
    /\ nbatch = 0
    /\ last_batch = [actions |-> <<>>, results |-> <<>>]
    /\ sup = new(DefaultConfig)
    /\ last_op = NoOp
    /\ nops = 0
    /\ tasks = NoTasks
    /\ executor_lock = None
    /\ loop_lock = None
    /\ app_locks = NoAppLocks

\* one supervisor_dispatch_core call, alone; the clock has moved on since
\* the operation before
OutcomeDispatch ==
    \E contract \in OutcomeContracts :
        /\ nops < MaxOutcomeOps
        /\ \E out \in {supervisor_dispatch_core(backend, idempotency, calls,
                                                [sup EXCEPT !.pushed = <<>>], contract,
                                                nbatch + 1, nops)} :
           /\ idempotency' = out.store
           /\ calls' = out.calls
           /\ history' = history \o out.entries
           /\ sup' = out.loop
           /\ last_batch' = IF out.ok
                            THEN [actions |-> contract.actions, results |-> out.results]
                            ELSE last_batch
           /\ last_op' = [kind |-> "dispatch", contract |-> contract, timestamp_ms |-> nops,
                          results |-> IF out.ok THEN out.results ELSE <<>>]
        /\ nbatch' = nbatch + 1
        /\ nops' = nops + 1
        /\ UNCHANGED <<backend, serviceVars>>

\* the session of workspace a starts or stops failing
OutcomeSetBackend ==
    \E mode \in OutcomeBackends \ {backend} :
        /\ nops < MaxOutcomeOps
        /\ backend' = mode
        /\ last_op' = [kind |-> "backend", mode |-> mode]
        /\ UNCHANGED <<idempotency, calls, history, nbatch, last_batch, sup, nops,
                       serviceVars>>

\* the session of workspace a sends a message about thread t
OutcomeSessionEvent ==
    \E message \in OutcomeMessages :
        /\ nops < MaxOutcomeOps
        /\ \E out \in {apply_app_server_event([sup EXCEPT !.pushed = <<>>], <<"a">>, message,
                                              nops)} :
           sup' = out
        /\ last_op' = [kind |-> "event", workspace_id |-> <<"a">>, message |-> message,
                       received_at_ms |-> nops]
        /\ nops' = nops + 1
        /\ UNCHANGED <<execVars, serviceVars>>

NextOutcome == OutcomeDispatch \/ OutcomeSetBackend \/ OutcomeSessionEvent

SpecOutcome == InitOutcome /\ [][NextOutcome]_vars

\* the job of the result is in the loop as the result says: Running and
\* started, or Failed with an error and a completion time
JobLoopedBack(now, result) ==
    /\ result.action_id \in DOMAIN now.jobs
    /\ LET job == now.jobs[result.action_id] IN
       IF result.status = "Dispatched"
       THEN job.status = "Running" /\ job.started_at_ms # None
       ELSE job.status = "Failed" /\ job.error # None /\ job.completed_at_ms # None

\* the thread of a Dispatched result that names a thread and a turn runs
\* that turn
ThreadLoopedBack(now, result) ==
    result.status = "Dispatched" /\ result.thread_id # None /\ result.turn_id # None
        => LET key == thread_map_key(result.workspace_id, Unwrap(result.thread_id)) IN
           /\ key \in DOMAIN now.threads
           /\ now.threads[key].status = "Running"
           /\ now.threads[key].active_turn_id = result.turn_id

\* a Failed signal of the workspace of a Failed result was pushed and is
\* among the signals
SignalLoopedBack(now, result) ==
    result.status = "Failed"
        => \E i \in 1..Len(now.signals) :
              /\ now.signals[i].kind = "Failed"
              /\ now.signals[i].workspace_id = Some(result.workspace_id)
              /\ \E j \in 1..Len(now.pushed) : now.pushed[j].id = now.signals[i].id

LoopedBack(now, result) ==
    /\ JobLoopedBack(now, result)
    /\ ThreadLoopedBack(now, result)
    /\ SignalLoopedBack(now, result)

\* no later result of the batch is of the same workspace
LastOfWorkspace(results, i) ==
    \A j \in (i + 1)..Len(results) : results[j].workspace_id # results[i].workspace_id

ActionIds(results) == { results[i].action_id : i \in 1..Len(results) }

\* C34: a failed dispatch affects only its own job: when
\* apply_dispatch_outcome_events processes a Failed result for workspace W,
\* the status and error of every job other than the job whose id is the
\* action_id of the result are left unchanged, including other non-terminal
\* jobs of W.  Here every result of the batch is Failed.
C34_FailedDispatchFrame ==
    [][/\ last_op'.kind = "dispatch"
       /\ \A i \in 1..Len(last_op'.results) : last_op'.results[i].status = "Failed"
       => \A id \in (DOMAIN sup.jobs) \ ActionIds(last_op'.results) :
             /\ id \in DOMAIN sup'.jobs
             /\ sup'.jobs[id].status = sup.jobs[id].status
             /\ sup'.jobs[id].error = sup.jobs[id].error]_vars

\* the jobs recorded for the work a replayed result stands for
OriginalJobs(s, result) ==
    { id \in DOMAIN s.jobs :
        /\ s.jobs[id].workspace_id = result.workspace_id
        /\ s.jobs[id].dedupe_key = Some(result.dedupe_key) }

\* C35: an idempotent replay does not disturb tracked work: when
\* supervisor_dispatch_core returns a result with idempotent_replay = true,
\* the job recorded for the original dispatch keeps its status, timestamps,
\* waiting_request_id and recent_events, also when the replaying action has
\* the same action_id as the original.
C35_ReplayKeepsJob ==
    [][last_op'.kind = "dispatch"
       => \A i \in 1..Len(last_op'.results) :
             last_op'.results[i].idempotent_replay
                => \A id \in OriginalJobs(sup, last_op'.results[i]) :
                      /\ id \in DOMAIN sup'.jobs
                      /\ sup'.jobs[id].status = sup.jobs[id].status
                      /\ sup'.jobs[id].requested_at_ms = sup.jobs[id].requested_at_ms
                      /\ sup'.jobs[id].started_at_ms = sup.jobs[id].started_at_ms
                      /\ sup'.jobs[id].completed_at_ms = sup.jobs[id].completed_at_ms
                      /\ sup'.jobs[id].waiting_request_id = sup.jobs[id].waiting_request_id
                      /\ sup'.jobs[id].recent_events = sup.jobs[id].recent_events]_vars

-----------------------------------------------------------------------------
(* Messages of every kind (SpecDrop): the sessions of workspaces a and b   *)
(* send messages the normalizer keeps and messages it drops.               *)

MaxDropOps == 3

DropMessages ==
    { Message("thread/updated", None, Some(<<"t">>), None, None, None, FALSE),
      Message("codex/connected", None, None, None, None, None, FALSE),
      Message("turn/started", None, Some(<<"t">>), Some(<<"u">>), None, None, FALSE),
      Message("turn/started", None, None, Some(<<"u">>), None, None, FALSE),
      Message("turn/completed", None, Some(<<"t">>), Some(<<" ">>), None, None, FALSE),
      Message("item/started", None, Some(<<"t">>), None, None, None, FALSE),
      Message("item/completed", None, Some(<<"t">>), None, Some(<<"i">>), None, FALSE),
      Message("error", None, Some(<<"t">>), None, None, Some(<<" ">>), FALSE),
      Message("error", None, Some(<<"t">>), None, None, None, FALSE),
      Message("error", None, None, None, None, Some(<<"x">>), FALSE),
      Message("workspace/requestApproval", None, Some(<<"t">>), Some(<<"u">>),
              Some(<<"i">>), None, FALSE),
      Message("workspace/requestApproval", Some(<<"8">>), Some(<<"t">>), Some(<<"u">>),
              Some(<<"i">>), None, FALSE),
      Message("item/tool/requestUserInput", None, Some(<<"t">>), Some(<<"u">>),
              Some(<<"i">>), None, FALSE),
      Message("item/tool/requestUserInput", Some(<<"7">>), Some(<<"t">>), Some(<<"u">>),
              Some(<<"i">>), None, FALSE) }

InitDrop ==
    /\ idempotency = <<>>
    /\ calls = <<>>
    /\ backend = "ok"
    /\ history = <<>>
    /\ nbatch = 0
    /\ last_batch = [actions |-> <<>>, results |-> <<>>]
    /\ sup = new(DefaultConfig)
    /\ last_op = NoOp
    /\ nops = 0
    /\ tasks = NoTasks
    /\ executor_lock = None
    /\ loop_lock = None
    /\ app_locks = NoAppLocks

\* a session sends a message
DropSessionEvent ==
    \E workspace_id \in ReducerWorkspaces, message \in DropMessages :
        /\ nops < MaxDropOps
        /\ \E out \in {apply_app_server_event([sup EXCEPT !.pushed = <<>>], workspace_id,
                                              message, nops)} :
           sup' = out
        /\ last_op' = [kind |-> "event", workspace_id |-> workspace_id, message |-> message,
                       received_at_ms |-> nops]
        /\ nops' = nops + 1
        /\ UNCHANGED <<execVars, serviceVars>>

NextDrop == DropSessionEvent

SpecDrop == InitDrop /\ [][NextDrop]_vars

\* C32: a workspace record is created on its first heartbeat: after
\* apply_app_server_event(w, m, t) for any raw message m (including approval
\* requests, user-input requests, errors without thread_id and unknown
\* methods), state.workspaces contains an entry for w.
C32_WorkspaceOnFirstHeartbeat ==
    [][last_op'.kind = "event" => last_op'.workspace_id \in DOMAIN sup'.workspaces]_vars

\* absent, or empty once trimmed
Missing(field) == field = None \/ Blank(Unwrap(field))

\* the messages that are neither turned into an event nor `codex/connected`
IsDropped(message) ==
    CASE message.method \in {"turn/started", "turn/completed"} ->
            Missing(message.thread_id) \/ Missing(message.turn_id)
      [] message.method \in {"item/started", "item/completed"} ->
            Missing(message.thread_id) \/ Missing(message.item_id)
      [] message.method = "error" -> Missing(message.message)
      [] message.method \in {"workspace/requestApproval", "item/tool/requestUserInput"} ->
            message.id = None
      [] message.method = "codex/connected" -> FALSE
      [] OTHER -> TRUE

\* the SupervisorState of a loop
StateFields(s) ==
    [workspaces |-> s.workspaces, threads |-> s.threads, jobs |-> s.jobs,
     signals |-> s.signals, activity_feed |-> s.activity_feed,
     open_questions |-> s.open_questions, pending_approvals |-> s.pending_approvals,
     chat_history |-> s.chat_history]

\* C33: dropped events have no effect on the state: apply_app_server_event
\* with a message that normalizes to None and is not `codex/connected`
\* (unknown method, turn/item event without thread_id or without its primary
\* id, error with empty message, approval request without envelope id)
\* leaves SupervisorState unchanged and only updates
\* workspace_last_event_at_ms for that workspace.
C33_DroppedEventsFrame ==
    [][last_op'.kind = "event" /\ IsDropped(last_op'.message)
       => /\ StateFields(sup') = StateFields(sup)
          /\ sup'.pushed = <<>>
          /\ sup'.config = sup.config
          /\ DOMAIN sup'.workspace_last_event_at_ms
                = (DOMAIN sup.workspace_last_event_at_ms) \cup {last_op'.workspace_id}
          /\ \A w \in DOMAIN sup'.workspace_last_event_at_ms :
                sup'.workspace_last_event_at_ms[w]
                    = IF w = last_op'.workspace_id THEN last_op'.received_at_ms
                      ELSE sup.workspace_last_event_at_ms[w]]_vars

\* workspace a has a running thread and a pending approval; an error with a
\* blank message comes from workspace b, which has no record, and only its
\* heartbeat is noted
C33_Witness ==
    /\ last_op.kind = "event"
    /\ last_op.message.method = "error"
    /\ IsDropped(last_op.message)
    /\ last_op.workspace_id = <<"b">>
    /\ DOMAIN sup.workspaces = { <<"a">> }
    /\ sup.threads # <<>>
    /\ sup.pending_approvals # <<>>
    /\ sup.workspace_last_event_at_ms[<<"b">>] = 2

-----------------------------------------------------------------------------
(* A dispatch and the events of its turn (SpecRace).  One task runs        *)
(* supervisor_dispatch_core: the batch under the executor mutex, then,     *)
(* after the mutex is dropped, apply_dispatch_outcome_events under the     *)
(* loop mutex.  Once start_turn has returned the session emits             *)
(* turn/started, item/started and turn/completed for the turn, and the     *)
(* event sink spawns a task for each; the tasks are taken here in the      *)
(* order of emission.  tasks = [pc, results, script, pending], and         *)
(* last_op.applied lists the methods applied so far.                       *)

MaxRaceEvents == 3

RaceContracts ==
    { Contract(SUPERVISOR_ACTION_CONTRACT_VERSION,
               << RawAction(<<"p">>, <<"a">>, <<"x">>, Some(<<"t">>), None) >>),
      Contract(SUPERVISOR_ACTION_CONTRACT_VERSION,
               << RawAction(<<"p">>, <<"a">>, <<"x">>, None, None) >>),
      Contract(SUPERVISOR_ACTION_CONTRACT_VERSION,
               << RawAction(<<"q">>, <<"b">>, <<"x">>, Some(<<"t">>), None) >>) }

\* what the session emits for the turn of a result
turn_script(result) ==
    IF result.status = "Dispatched" /\ IsSome(result.thread_id) /\ IsSome(result.turn_id)
    THEN << Message("turn/started", None, result.thread_id, result.turn_id, None, None, FALSE),
            Message("item/started", None, result.thread_id, None, Some(<<"i">>), None, FALSE),
            Message("turn/completed", None, result.thread_id, result.turn_id, None, None,
                    FALSE) >>
    ELSE <<>>

InitRace ==
    /\ idempotency = <<>>
    /\ calls = <<>>
    /\ backend \in {"ok", "turn_error"}
    /\ history = <<>>
    /\ nbatch = 0
    /\ last_batch = [actions |-> <<>>, results |-> <<>>]
    /\ sup = new(DefaultConfig)
    /\ last_op = [kind |-> "none", applied |-> <<>>]
    /\ nops = 0
    /\ tasks = [pc |-> "idle", results |-> <<>>, script |-> <<>>, pending |-> <<>>]
    /\ executor_lock = None
    /\ loop_lock = None
    /\ app_locks = NoAppLocks

\* supervisor_dispatch_core up to the end of the block that holds the
\* executor mutex
RaceDispatchBatch ==
    \E contract \in RaceContracts :
        /\ tasks.pc = "idle"
        /\ \E validated \in {parse_supervisor_action_contract_value(contract)} :
           /\ validated.ok
           /\ \E out \in {dispatch_batch(backend, idempotency, calls, validated.value,
                                         nbatch + 1)} :
              /\ idempotency' = out.store
              /\ calls' = out.calls
              /\ history' = history \o out.entries
              /\ last_batch' = [actions |-> contract.actions, results |-> out.results]
              /\ tasks' = [tasks EXCEPT !.pc = "outcome", !.results = out.results,
                                        !.script = turn_script(out.results[1])]
        /\ nbatch' = nbatch + 1
        /\ last_op' = [kind |-> "batch", applied |-> last_op.applied]
        /\ UNCHANGED <<backend, sup, nops, executor_lock, loop_lock, app_locks>>

\* emit_app_server_event: the session emits the next message of the turn
\* and a task is spawned for it
RaceEmit ==
    /\ tasks.script # <<>>
    /\ tasks' = [tasks EXCEPT !.script = Tail(@),
                              !.pending = Append(@, Head(tasks.script))]
    /\ last_op' = [kind |-> "emit", applied |-> last_op.applied]
    /\ UNCHANGED <<execVars, sup, nops, executor_lock, loop_lock, app_locks>>

\* the oldest spawned task takes the loop mutex and applies its event at the
\* time it reads from the clock
RaceApplyEvent ==
    /\ tasks.pending # <<>>
    /\ nops < MaxRaceEvents + 1
    /\ LET message == Head(tasks.pending)
           workspace_id == tasks.results[1].workspace_id
       IN
       /\ \E out \in {apply_app_server_event([sup EXCEPT !.pushed = <<>>], workspace_id,
                                             message, nops)} :
          sup' = out
       /\ last_op' = [kind |-> "apply", applied |-> Append(last_op.applied, message.method)]
    /\ tasks' = [tasks EXCEPT !.pending = Tail(@)]
    /\ nops' = nops + 1
    /\ UNCHANGED <<execVars, executor_lock, loop_lock, app_locks>>

\* apply_dispatch_outcome_events under the loop mutex, and the return of
\* supervisor_dispatch_core
RaceApplyOutcome ==
    /\ tasks.pc = "outcome"
    /\ \E out \in {apply_dispatch_outcome_events([sup EXCEPT !.pushed = <<>>],
                                                 tasks.results, nops)} :
       sup' = out
    /\ tasks' = [tasks EXCEPT !.pc = "done"]
    /\ last_op' = [kind |-> "outcome", applied |-> last_op.applied]
    /\ nops' = nops + 1
    /\ UNCHANGED <<execVars, executor_lock, loop_lock, app_locks>>

NextRace == RaceDispatchBatch \/ RaceEmit \/ RaceApplyEvent \/ RaceApplyOutcome

SpecRace == InitRace /\ [][NextRace]_vars

\* turn/completed was applied
TurnCompletedApplied ==
    \E i \in 1..Len(last_op.applied) : last_op.applied[i] = "turn/completed"

\* C36: dispatch outcome versus session events: for a dispatched action with
\* thread T and turn U, if the turn/completed(T,U) event of the session is
\* applied to the loop, then in every interleaving of the session-event
\* tasks with apply_dispatch_outcome_events the job of that action ends
\* Completed and thread T ends Completed with active_turn_id None; the job
\* is never left Running after its turn has completed.
C36_JobEndsCompleted ==
    tasks.pc = "done" /\ TurnCompletedApplied
        => LET result == tasks.results[1]
               key == thread_map_key(result.workspace_id, Unwrap(result.thread_id))
           IN
           /\ result.action_id \in DOMAIN sup.jobs
           /\ sup.jobs[result.action_id].status = "Completed"
           /\ key \in DOMAIN sup.threads
           /\ sup.threads[key].status = "Completed"
           /\ sup.threads[key].active_turn_id = None

-----------------------------------------------------------------------------
(* Concurrent replies to a waiting subtask (SpecReplies).  Each task runs  *)
(* the reply path of one supervisor_chat_send_core call:                   *)
(* try_route_reply_to_waiting_subtask reads the waiting jobs under the     *)
(* loop mutex and drops it, deliver_reply_to_waiting_subtask looks the     *)
(* session up and awaits send_response with no loop mutex held, and takes  *)
(* the loop mutex again to mark the reply delivered or failed.             *)
(* tasks[i] = [pc, job, reply_text, received_at_ms, send_ok, report], and  *)
(* last_op.sent lists the send_response calls made so far.                 *)

MaxReplyOps == 2

ReplyTasks == 1..2

ReplyCommands == { <<"yes">>, <<"@", "p", " ", "yes">>, <<"@", "q", " ", "yes">> }

ReplyMessages ==
    { Message("item/tool/requestUserInput", Some(<<"8">>), Some(<<"t">>), Some(<<"u">>),
              Some(<<"i">>), None, FALSE),
      Message("turn/completed", None, Some(<<"t">>), Some(<<"u">>), None, None, FALSE) }

IdleReply ==
    [pc |-> "idle", job |-> None, reply_text |-> <<>>, received_at_ms |-> 0,
     send_ok |-> FALSE, report |-> "none"]

\* the first half of try_route_reply_to_waiting_subtask: the job the reply
\* goes to, if it goes to one, from the waiting jobs read under the loop
\* mutex
reply_target(s, command) ==
    Bind(parse_targeted_subtask_reply(command), LAMBDA targeted_reply :
    Bind(waiting_jobs(s), LAMBDA waiting :
    IF waiting = <<>>
    THEN [deliver |-> FALSE, answered |-> IsSome(targeted_reply), job |-> None,
          reply_text |-> <<>>]
    ELSE IF IsSome(targeted_reply)
    THEN IF ~\E i \in 1..Len(waiting) : waiting[i].id = Unwrap(targeted_reply).subtask_id
         THEN [deliver |-> FALSE, answered |-> TRUE, job |-> None, reply_text |-> <<>>]
         ELSE [deliver |-> TRUE, answered |-> FALSE,
               job |-> Some(waiting[CHOOSE i \in 1..Len(waiting) :
                                waiting[i].id = Unwrap(targeted_reply).subtask_id]),
               reply_text |-> Unwrap(targeted_reply).reply_text]
    ELSE IF Len(waiting) > 1
    THEN [deliver |-> FALSE, answered |-> TRUE, job |-> None, reply_text |-> <<>>]
    ELSE [deliver |-> TRUE, answered |-> FALSE, job |-> Some(waiting[1]),
          reply_text |-> command]))

InitReplies ==
    /\ idempotency = <<>>
    /\ calls = <<>>
    /\ backend = "ok"
    /\ history = <<>>
    /\ nbatch = 0
    /\ last_batch = [actions |-> <<>>, results |-> <<>>]
    /\ \E setup \in { upsert_job(new(DefaultConfig),
                                 waiting_job(<<"p">>, <<"a">>, <<"t">>, <<"7">>)),
                      upsert_job(upsert_job(new(DefaultConfig),
                                    waiting_job(<<"p">>, <<"a">>, <<"t">>, <<"7">>)),
                                 waiting_job(<<"q">>, <<"b">>, <<"t">>, <<"8">>)) } :
        sup = [setup EXCEPT !.pushed = <<>>]
    /\ last_op = [kind |-> "none", sent |-> <<>>]
    /\ nops = 0
    /\ tasks = [i \in ReplyTasks |-> IdleReply]
    /\ executor_lock = None
    /\ loop_lock = None
    /\ app_locks = NoAppLocks

\* try_route_reply_to_waiting_subtask up to the call of
\* deliver_reply_to_waiting_subtask
ReplyRead(i) ==
    \E command \in ReplyCommands :
        /\ tasks[i].pc = "idle"
        /\ \E target \in {reply_target(sup, command)} :
           tasks' = [tasks EXCEPT ![i] =
                IF target.deliver
                THEN [pc |-> "send", job |-> target.job, reply_text |-> target.reply_text,
                      received_at_ms |-> nops + 2, send_ok |-> FALSE, report |-> "none"]
                ELSE [IdleReply EXCEPT !.pc = "done",
                                       !.report = IF target.answered THEN "answer"
                                                  ELSE "none"]]
        /\ last_op' = [kind |-> "read", sent |-> last_op.sent]
        /\ nops' = nops + 1
        /\ UNCHANGED <<execVars, sup, executor_lock, loop_lock, app_locks>>

\* deliver_reply_to_waiting_subtask up to the end of send_response, which
\* the session answers or fails
ReplySend(i) ==
    \E ok \in BOOLEAN :
        /\ tasks[i].pc = "send"
        /\ tasks' = [tasks EXCEPT ![i].pc = "mark", ![i].send_ok = ok]
        /\ last_op' = [kind |-> "send",
                       sent |-> Append(last_op.sent,
                                    [task |-> i, job_id |-> Unwrap(tasks[i].job).id,
                                     request_id |->
                                        Unwrap(Unwrap(tasks[i].job).waiting_request_id),
                                     ok |-> ok])]
        /\ UNCHANGED <<execVars, sup, nops, executor_lock, loop_lock, app_locks>>

\* the match on send_result of deliver_reply_to_waiting_subtask, under the
\* loop mutex
ReplyMark(i) ==
    /\ tasks[i].pc = "mark"
    /\ LET job == Unwrap(tasks[i].job)
           request_id == Unwrap(job.waiting_request_id)
       IN
       IF tasks[i].send_ok
       THEN \E r \in {mark_reply_delivered([sup EXCEPT !.pushed = <<>>], job.id, request_id,
                                           tasks[i].received_at_ms)} :
                /\ sup' = r.loop
                /\ tasks' = [tasks EXCEPT ![i].pc = "done",
                                          ![i].report = IF r.ok THEN "routed" ELSE "error"]
       ELSE \E s \in {mark_reply_delivery_failed([sup EXCEPT !.pushed = <<>>], job.id,
                                                 request_id, tasks[i].received_at_ms)} :
                /\ sup' = s
                /\ tasks' = [tasks EXCEPT ![i].pc = "done", ![i].report = "error"]
    /\ last_op' = [kind |-> "mark", sent |-> last_op.sent]
    /\ UNCHANGED <<execVars, nops, executor_lock, loop_lock, app_locks>>

\* a session event of workspace a is applied
ReplySessionEvent ==
    \E message \in ReplyMessages :
        /\ nops < MaxReplyOps
        /\ \E out \in {apply_app_server_event([sup EXCEPT !.pushed = <<>>], <<"a">>, message,
                                              nops + 2)} :
           sup' = out
        /\ last_op' = [kind |-> "event", sent |-> last_op.sent]
        /\ nops' = nops + 1
        /\ UNCHANGED <<execVars, tasks, executor_lock, loop_lock, app_locks>>

NextReplies ==
    \/ \E i \in ReplyTasks : ReplyRead(i)
    \/ \E i \in ReplyTasks : ReplySend(i)
    \/ \E i \in ReplyTasks : ReplyMark(i)
    \/ ReplySessionEvent

SpecReplies == InitReplies /\ [][NextReplies]_vars

\* C37: a waiting request is answered at most once: across every
\* interleaving of concurrent supervisor_chat_send_core calls and session
\* events, send_response is invoked at most once for a given (job, waiting
\* request id), and a reply is reported as "Reply routed to subtask" exactly
\* when send_response succeeded for it.
C37_AnsweredAtMostOnce ==
    /\ \A i, j \in 1..Len(last_op.sent) :
            /\ last_op.sent[i].job_id = last_op.sent[j].job_id
            /\ last_op.sent[i].request_id = last_op.sent[j].request_id
            => i = j
    /\ \A t \in ReplyTasks :
            tasks[t].pc = "done" /\ IsSome(tasks[t].job)
                => (tasks[t].report = "routed" <=> tasks[t].send_ok)

-----------------------------------------------------------------------------
(* The active turn of a thread, in specification SpecTurns. *)

\* log[i] is the turn/started that opened the turn thread T of workspace W is
\* in: no turn/started and no turn/completed of T came after it (the
\* sessions of SpecTurns send no error)
OpensCurrentTurn(log, i) ==
    /\ log[i].message.method = "turn/started"
    /\ \A k \in (i + 1)..Len(log) :
            \/ log[k].workspace_id # log[i].workspace_id
            \/ log[k].message.thread_id # log[i].message.thread_id
            \/ IsItemEvent(log[k])

\* C38: the active turn is tracked for its whole duration: for every thread,
\* from the application of turn/started(T,U) until the next turn/completed
\* or error event for T, thread.active_turn_id = U, in particular after
\* item/started and item/completed events on T, which only keep the thread
\* Running.
C38_ActiveTurnTracked ==
    \A i \in 1..Len(last_op.log) :
        OpensCurrentTurn(last_op.log, i) =>
            LET key == thread_map_key(last_op.log[i].workspace_id,
                                      Unwrap(last_op.log[i].message.thread_id))
            IN key \in DOMAIN sup.threads =>
                    /\ sup.threads[key].status = "Running"
                    /\ sup.threads[key].active_turn_id = last_op.log[i].message.turn_id

-----------------------------------------------------------------------------
(* The contracts of the chat, in specification SpecChat. *)

\* the workspace ids of a request are pairwise distinct
DistinctWorkspaces(request) ==
    \A i, j \in 1..Len(request.workspace_ids) :
        request.workspace_ids[i] = request.workspace_ids[j] => i = j

\* the contract built for a request under a prefix is accepted and yields
\* one action per workspace id, in order, numbered from 1
ContractIsValid(request, action_id_prefix) ==
    LET parsed == parse_supervisor_action_contract_value(
                        build_dispatch_contract(request, action_id_prefix))
    IN /\ parsed.ok
       /\ Len(parsed.value) = Len(request.workspace_ids)
       /\ \A i \in 1..Len(request.workspace_ids) :
            /\ parsed.value[i].workspace_id = request.workspace_ids[i]
            /\ parsed.value[i].action_id = action_id_prefix \o <<"-">> \o NumStr(i)

\* C39: chat-built contracts are valid: for every request parsed from a
\* well-formed /dispatch command (or built by free-form routing) with
\* pairwise distinct workspace ids, the contract produced by
\* build_dispatch_contract is accepted by
\* parse_supervisor_action_contract_value and yields exactly one dispatch
\* action per workspace id, in order, with action_id {prefix}-{N} for
\* N = 1..n.
C39_ChatContractsValid ==
    last_op.kind = "chat_send" /\ Trim(last_op.command) # <<>>
        /\ Head(Trim(last_op.command)) = "/" =>
        LET parsed == parse_supervisor_chat_command(Trim(last_op.command)) IN
        parsed.ok /\ parsed.value.kind = "Dispatch"
            /\ DistinctWorkspaces(parsed.value.request) =>
            ContractIsValid(parsed.value.request,
                            <<"chat-dispatch-">> \o NumStr(last_op.received_at_ms))

-----------------------------------------------------------------------------
(* Progress of the service operations (SpecLive): the behaviours of        *)
(* SpecLocks in which a guard that can be dropped is dropped, a backend    *)
(* call returns, and a task that waits for a mutex gets it if the mutex is *)
(* free again and again (the mutexes of tokio hand the lock over in the    *)
(* order of the requests).  Nothing makes a task start an operation.       *)

Live ==
    \A t \in Tasks :
        /\ WF_vars(Release(t))
        /\ WF_vars(Backend(t))
        /\ SF_vars(Acquire(t))

SpecLive == InitLocks /\ [][NextLocks]_vars /\ Live

\* the task that holds a mutex, if any
Holder(mutex) ==
    CASE mutex = "loop" -> loop_lock
      [] mutex = "executor" -> executor_lock
      [] OTHER -> app_locks[mutex]

\* task t waits for a mutex that task u holds
WaitsFor(t, u) ==
    About(t, "lock") /\ Holder(Head(tasks[t].steps).on) = Some(u)

\* a chain of at most n waiting tasks leads from t to u
RECURSIVE Reaches(_, _, _)
Reaches(t, u, n) ==
    /\ n > 0
    /\ \/ WaitsFor(t, u)
       \/ \E v \in Tasks : WaitsFor(t, v) /\ Reaches(v, u, n - 1)

NoWaitCycle == \A t \in Tasks : ~Reaches(t, t, NumTasks)

\* C40: deadlock freedom: assuming every backend call (start_thread,
\* resume_thread, start_turn, send_response) returns and the mutexes are
\* fair, every supervisor_dispatch_core, supervisor_chat_send_core,
\* supervisor_ack_signal_core, run_health_pull_tick and event application
\* eventually completes; no reachable state has tasks waiting on one
\* another in a cycle over the loop, executor, sessions and workspaces
\* locks.
C40_DeadlockFreedom ==
    /\ []NoWaitCycle
    /\ \A t \in Tasks : (tasks[t].steps # <<>>) ~> (tasks[t].steps = <<>>)

\* a dispatch holds the executor mutex and, in session_for_workspace, the
\* sessions mutex, while a health tick waits for the sessions
C40_Witness ==
    \E t, u \in Tasks :
        /\ tasks[u].op = "dispatch"
        /\ executor_lock = Some(u)
        /\ app_locks["sessions"] = Some(u)
        /\ tasks[t].op = "health_tick"
        /\ WaitsFor(t, u)

=============================================================================
